---- MODULE Spec2Model ----
(***************************************************************************)
(* A model of the D-Piu / PAM scraping scripts:                            *)
(*   shop_geocode.py  geocode_address (retry recursion), process_batch,    *)
(*                    main (batch loop over the input rows)                *)
(*   shop_scrape.py   scrape_dpiu_stores (per-city worker), save_temp_     *)
(*                    results, merge_temp_files, main (chunk dispatcher)   *)
(*   flyer_scraping.py  process_store, save_results, main (item loop)      *)
(*   shop_details.py  extract_store_details, main (item loop)              *)
(* Each script is one specification over its own group of variables; the   *)
(* variables of the other scripts stay at their idle value.                *)
(***************************************************************************)
EXTENDS Integers, Sequences, FiniteSets, TLC

VARIABLES
    \* ---- shop_geocode.geocode_address: one call, with its recursion ----
    retry,          \* the retry parameter of the running invocation
    responses,      \* what each request issued so far came back with
    waits,          \* the time.sleep durations so far, in milliseconds
    result,         \* the returned dict's geocode_status, NoResult while running
    \* ---- shop_geocode.main and process_batch ----
    geoPc,          \* where main is: "loop", "batch", "done", "fatal" ("idle": not run)
    batch_start,    \* i of the for loop over range(0, len(df), batch_size)
    futures,        \* row label -> the future submitted for it in the current batch
    results,        \* process_batch's results list
    all_results,    \* main's all_results, the batches' frames concatenated
    output_csv,     \* the rows of OUTPUT_CSV, NoFile before the first save
    batches,        \* the frames handed to process_batch so far
    window_requests,\* requests.get calls issued in the last and in this half second
    main_sleep,     \* half seconds left of main's time.sleep after a batch
    \* ---- shop_scrape: main, its pool workers and the files ----
    scrapePc,       \* where main is: "start", "clear_temp", "dispatch", "pool",
                    \* "cleanup", "done", "raised" ("idle": not run)
    chunk_start,    \* i of the for loop over range(0, len(MAJOR_CITIES), chunk_size)
    worker,         \* city -> the scrape_dpiu_stores call made for it
    temp_dir,       \* city -> rows of TEMP_DIR/temp_<city>_shops.csv, or NoFile
    temp_tmp,       \* city -> TEMP_DIR/temp_<city>_shops.csv.tmp, or NoFile
    output_file,    \* rows of OUTPUT_DIR/dpiu_stores.csv, or NoFile
    output_tmp,     \* OUTPUT_DIR/dpiu_stores.csv.tmp, or NoFile
    prior_output,   \* what output_file held when main was started
    prior_temp,     \* what TEMP_DIR held then: city -> the run before's checkpoint
    chunks,         \* the chunks handed to a pool so far
    \* ---- flyer_scraping: main and its one driver ----
    flyerPc,        \* where main is: "start", "setup", "loop", "final_save", "done",
                    \* "raised", "interrupted" ("idle": not run)
    flyer_csv,      \* INPUT_CSV: label -> the row's Shop ID and Store URL
    flyer_data,     \* data after dropna: the labels of the rows kept, in order
    flyer_pos,      \* position in flyer_data of the row iterrows gives next
    flyer_results,  \* main's all_results
    flyer_driver,   \* the driver of line 178: times quit, session still usable
    flyer_output,   \* OUTPUT_FILE
    flyer_fallback, \* the PAM_flyers_<timestamp>.csv of the last failed save
    \* ---- shop_details: main and its one driver ----
    detailsPc,      \* where main is: "start", "load", "loop", "done", "failed",
                    \* "interrupted", "exited" ("idle": not run)
    details_df,     \* df after drop_duplicates: the labels of the rows kept
    details_pos,    \* position in details_df of the row iterrows gives next
    details_items,  \* what extract_store_details returned for each row so far
    details_results,\* main's results
    details_driver, \* the driver of line 252: times quit, session still usable
    details_temp,   \* OUTPUT_DIR/temp_<OUTPUT_CSV>
    details_output, \* OUTPUT_DIR/<OUTPUT_CSV>
    \* ---- shop_details: extract_store_details called store after store ----
    extractPc,      \* where the call is: "call" (between two calls), "fields",
                    \* "maps", "clicked" ("idle": not run)
    extract_calls,  \* the calls of extract_store_details made so far
    window_handles, \* driver.window_handles: the windows and tabs that are open
    focus,          \* the window the driver is switched to ("closed": one that
                    \* has been closed)
    main_window,    \* main_window of handle_maps_link (line 113)
    store_record,   \* what the call has extracted, and what it returned
    \* ---- shop_create: main ----
    createPc,       \* where main is: "start", "loop", "done", "exited"
                    \* ("idle": not run)
    create_df,      \* df: label -> the row read and its Shop ID ("None" or an _id)
    create_pos,     \* position in df of the row iterrows gives next
    success_count,  \* success_count of main (line 97)
    failure_count,  \* failure_count of main (line 98)
    create_output   \* store_PAM_geocoded_details_with_ids.csv

geoVars == <<retry, responses, waits, result>>

geoMainVars ==
    <<geoPc, batch_start, futures, results, all_results, output_csv, batches,
      window_requests, main_sleep>>

scrapeVars ==
    <<scrapePc, chunk_start, worker, temp_dir, temp_tmp, output_file, output_tmp,
      prior_output, prior_temp, chunks>>

flyerVars ==
    <<flyerPc, flyer_csv, flyer_data, flyer_pos, flyer_results, flyer_driver, flyer_output,
      flyer_fallback>>

detailsVars ==
    <<detailsPc, details_df, details_pos, details_items, details_results,
      details_driver, details_temp, details_output>>

extractVars ==
    <<extractPc, extract_calls, window_handles, focus, main_window, store_record>>

createVars ==
    <<createPc, create_df, create_pos, success_count, failure_count, create_output>>

vars ==
    <<geoVars, geoMainVars, scrapeVars, flyerVars, detailsVars, extractVars,
      createVars>>

\* A file of the file system: absent, completely written with its rows, or
\* left part-written by a write that raised.
NoFile == [state |-> "absent", rows |-> <<>>]

File(rows) == [state |-> "complete", rows |-> rows]

PartialFile == [state |-> "partial", rows |-> <<>>]

\* len(MAJOR_CITIES) of shop_scrape (lines 18-29), scaled down from 10; the
\* cities are 1..NumCities.
NumCities == 3

Cities == 1..NumCities

\* max_retries of scrape_dpiu_stores (line 188).
max_retries == 2

\* driver = None, stores = [], retry_count = 0 (lines 186-189).
NoDriver == 0

NotCreated == -1

FreshWorker ==
    [pc |-> "loop", retry_count |-> 0, driver |-> NoDriver, stores |-> <<>>,
     ret |-> "none", attempts |-> <<>>, saved |-> "none",
     quits |-> [d \in 1..max_retries |-> NotCreated]]

IdleWorker == [FreshWorker EXCEPT !.pc = "idle"]

\* The one driver of flyer_scraping main and of shop_details main, before
\* setup_driver has returned it.
NoSession == [created |-> FALSE, quits |-> 0, broken |-> FALSE]

\* Each script's variables when the script is not the one being run.
GeoCallIdle ==
    /\ retry = 0
    /\ responses = <<>>
    /\ waits = <<>>
    /\ result = "none"

GeoMainIdle ==
    /\ geoPc = "idle"
    /\ batch_start = 0
    /\ futures = <<>>
    /\ results = <<>>
    /\ all_results = <<>>
    /\ output_csv = NoFile
    /\ batches = <<>>
    /\ window_requests = <<0, 0>>
    /\ main_sleep = 0

ScrapeIdle ==
    /\ scrapePc = "idle"
    /\ chunk_start = 0
    /\ worker = [c \in Cities |-> IdleWorker]
    /\ temp_dir = [c \in Cities |-> NoFile]
    /\ temp_tmp = [c \in Cities |-> NoFile]
    /\ output_file = NoFile
    /\ output_tmp = NoFile
    /\ prior_output = NoFile
    /\ prior_temp = [c \in Cities |-> NoFile]
    /\ chunks = <<>>

FlyerIdle ==
    /\ flyerPc = "idle"
    /\ flyer_csv = <<>>
    /\ flyer_data = <<>>
    /\ flyer_pos = 1
    /\ flyer_results = <<>>
    /\ flyer_driver = NoSession
    /\ flyer_output = NoFile
    /\ flyer_fallback = NoFile

DetailsIdle ==
    /\ detailsPc = "idle"
    /\ details_df = <<>>
    /\ details_pos = 1
    /\ details_items = <<>>
    /\ details_results = <<>>
    /\ details_driver = NoSession
    /\ details_temp = NoFile
    /\ details_output = NoFile

\* The columns of a store record that are extracted from the page
\* (shop_details lines 237-244).
Fields == {"Store Name", "Address", "Contact", "Coordinates"}

\* Nothing extracted and nothing returned yet.
NoRecord == [returned |-> "none", fields |-> [f \in Fields |-> "unset"], failed |-> {}]

ExtractIdle ==
    /\ extractPc = "idle"
    /\ extract_calls = 0
    /\ window_handles = {"main"}
    /\ focus = "main"
    /\ main_window = "main"
    /\ store_record = NoRecord

CreateIdle ==
    /\ createPc = "idle"
    /\ create_df = <<>>
    /\ create_pos = 1
    /\ success_count = 0
    /\ failure_count = 0
    /\ create_output = NoFile

(***************************************************************************)
(* shop_geocode.py                                                         *)
(***************************************************************************)
MAX_RETRIES == 3

NoResult == "none"

\* What one requests.get + raise_for_status + json() + parsing can come to:
\* a response status of the Geocoding API, or an exception raised anywhere
\* inside the try block (connection error, timeout, HTTP error, bad JSON).
Statuses ==
    {"OK", "ZERO_RESULTS", "OVER_QUERY_LIMIT", "UNKNOWN_ERROR",
     "REQUEST_DENIED", "INVALID_REQUEST"}

Responses == Statuses \cup {"EXCEPTION"}

\* Variants of the retried list that retry more than the source does.
RetryableAnyFailure(status) == status # "OK"

RetryableWithZeroResults(status) ==
    status \in {"OVER_QUERY_LIMIT", "UNKNOWN_ERROR", "ZERO_RESULTS"}

\* The statuses the else branch retries (line 85).
RetryableStatus(status) == status \in {"OVER_QUERY_LIMIT", "UNKNOWN_ERROR"}

\* A variant of the retry bound that stops one retry early.
RetriesLeftOffByOne(r) == r < MAX_RETRIES - 1

\* A variant of the retry bound that allows one retry more.
RetriesLeftOneMore(r) == r <= MAX_RETRIES

\* retry < MAX_RETRIES (lines 85 and 96).
RetriesLeft(r) == r < MAX_RETRIES

RECURSIVE Pow2(_)
Pow2(n) == IF n = 0 THEN 1 ELSE 2 * Pow2(n - 1)

\* wait_time = (2 ** retry) * 0.5 seconds (line 86), in milliseconds.
StatusBackoff(r) == Pow2(r) * 500

\* time.sleep(1) of the except branch (line 97), in milliseconds.
ExceptionBackoff(r) == 1000

\* One pass through the body of geocode_address for the invocation with
\* retry = r whose request came to resp: either the dict it returns
\* (again = FALSE) or the sleep it takes before calling itself with r + 1.
geocode_attempt(r, resp) ==
    IF resp = "EXCEPTION"
    THEN IF RetriesLeft(r)
         THEN [again |-> TRUE, wait |-> ExceptionBackoff(r), geocode_status |-> NoResult]
         ELSE [again |-> FALSE, wait |-> 0, geocode_status |-> "ERROR"]
    ELSE IF resp = "OK"
    THEN [again |-> FALSE, wait |-> 0, geocode_status |-> "SUCCESS"]
    ELSE IF RetriesLeft(r) /\ RetryableStatus(resp)
    THEN [again |-> TRUE, wait |-> StatusBackoff(r), geocode_status |-> NoResult]
    ELSE [again |-> FALSE, wait |-> 0, geocode_status |-> "FAILED"]

GeoCallInit ==
    /\ retry = 0
    /\ responses = <<>>
    /\ waits = <<>>
    /\ result = NoResult
    /\ GeoMainIdle
    /\ ScrapeIdle
    /\ FlyerIdle
    /\ DetailsIdle
    /\ ExtractIdle
    /\ CreateIdle

\* The invocation's request comes back with resp and the function returns.
GeocodeReturn(resp) ==
    /\ result = NoResult
    /\ ~geocode_attempt(retry, resp).again
    /\ responses' = Append(responses, resp)
    /\ result' = geocode_attempt(retry, resp).geocode_status
    /\ UNCHANGED <<retry, waits, geoMainVars, scrapeVars, flyerVars, detailsVars,
                   extractVars, createVars>>

\* The invocation's request comes back with resp, the function sleeps and
\* calls itself with retry + 1.
GeocodeRetry(resp) ==
    /\ result = NoResult
    /\ geocode_attempt(retry, resp).again
    /\ responses' = Append(responses, resp)
    /\ waits' = Append(waits, geocode_attempt(retry, resp).wait)
    /\ retry' = retry + 1
    /\ UNCHANGED <<result, geoMainVars, scrapeVars, flyerVars, detailsVars,
                   extractVars, createVars>>

GeoCallNext ==
    \/ \E resp \in Responses : GeocodeReturn(resp)
    \/ \E resp \in Responses : GeocodeRetry(resp)

SpecGeocodeAddress == GeoCallInit /\ [][GeoCallNext]_vars

(***************************************************************************)
(* Claims about geocode_address, checked under SpecGeocodeAddress.         *)
(***************************************************************************)
Requests == Len(responses)

\* The failures the claims call transient: a request exception, or one of
\* the statuses OVER_QUERY_LIMIT and UNKNOWN_ERROR.
Transient(resp) == resp \in {"EXCEPTION", "OVER_QUERY_LIMIT", "UNKNOWN_ERROR"}

AllTransient(n) == \A i \in 1..n : Transient(responses[i])

\* C4: when the first k requests (k <= MAX_RETRIES) each fail transiently the
\* call is still running and issues request k+1, and when that request comes
\* back OK the call returns SUCCESS having issued exactly k+1 requests
\* (k recursive calls).
C4_SuccessAfterTransientFailures ==
    /\ (Requests <= MAX_RETRIES /\ AllTransient(Requests)) => result = NoResult
    /\ ( /\ Requests >= 1
         /\ Requests - 1 <= MAX_RETRIES
         /\ AllTransient(Requests - 1)
         /\ responses[Requests] = "OK" )
       => (result = "SUCCESS" /\ retry = Requests - 1 /\ Len(waits) = Requests - 1)

\* Three transient failures of the three kinds, then OK on the fourth request.
C4_Witness ==
    /\ responses = <<"EXCEPTION", "OVER_QUERY_LIMIT", "UNKNOWN_ERROR", "OK">>
    /\ result = "SUCCESS"

\* OVER_QUERY_LIMIT and the statuses that are neither OK nor ZERO_RESULTS.
UnrecognizedOrOverLimit == Statuses \ {"OK", "ZERO_RESULTS"}

\* C8 as stated: a response with OVER_QUERY_LIMIT or any status other than OK
\* and ZERO_RESULTS is followed by another attempt while retries remain.
C8_UnrecognizedStatusRetried ==
    ( /\ Requests >= 1
      /\ Requests <= MAX_RETRIES
      /\ responses[Requests] \in UnrecognizedOrOverLimit )
    => (result = NoResult /\ retry = Requests)

\* C8 as amended: OVER_QUERY_LIMIT and UNKNOWN_ERROR are followed by another
\* attempt while retries remain; every other status except OK (ZERO_RESULTS,
\* REQUEST_DENIED, INVALID_REQUEST) is returned as FAILED with no retry.
C8_OnlyListedStatusesRetried ==
    /\ ( /\ Requests >= 1
         /\ Requests <= MAX_RETRIES
         /\ responses[Requests] \in {"OVER_QUERY_LIMIT", "UNKNOWN_ERROR"} )
       => (result = NoResult /\ retry = Requests)
    /\ \A i \in 1..Requests :
         responses[i] \in {"ZERO_RESULTS", "REQUEST_DENIED", "INVALID_REQUEST"}
         => (i = Requests /\ result = "FAILED" /\ Len(waits) = i - 1)

\* UNKNOWN_ERROR was retried, and the REQUEST_DENIED that followed was not.
C8_Witness ==
    /\ responses = <<"UNKNOWN_ERROR", "REQUEST_DENIED">>
    /\ retry = 1
    /\ result = "FAILED"

\* C9: a ZERO_RESULTS or OK response ends the call at that request with no
\* sleep after it (as the first response: exactly one request, no sleep at
\* all), and every response that was followed by a sleep and another attempt
\* was a transient failure.
C9_TerminalResponsesNotRetried ==
    /\ \A i \in 1..Requests :
         responses[i] \in {"ZERO_RESULTS", "OK"}
         => (i = Requests /\ result # NoResult /\ Len(waits) = i - 1 /\ retry = i - 1)
    /\ (Requests >= 1 /\ responses[1] \in {"ZERO_RESULTS", "OK"})
       => (Requests = 1 /\ waits = <<>> /\ retry = 0)
    /\ \A i \in 1..Len(waits) : Transient(responses[i])

\* ZERO_RESULTS on the first request: returned as FAILED after one request.
C9_Witness ==
    /\ responses = <<"ZERO_RESULTS">>
    /\ result = "FAILED"
    /\ waits = <<>>

\* C20: the waits of one call all have the form base * 2^n for one base,
\* n being the retry the failure happened at: whatever two retried failures
\* are compared, statuses or exceptions, their waits stand in the ratio of
\* their powers of two.
C20_WaitIsBaseTimesPowerOfTwo ==
    \A i, j \in 1..Len(waits) :
        waits[i] * Pow2(j - 1) = waits[j] * Pow2(i - 1)

\* C21: whatever the responses and exceptions are, the call issues at most
\* MAX_RETRIES + 1 = 4 requests and has returned once the fourth came back;
\* the attempts are sequential, attempt i + 1 running with retry = i: every
\* response that did not end the call, a status or an exception, raised the
\* one retry counter by exactly one and was followed by one sleep.
C21_TerminatesWithinMaxRetriesPlusOne ==
    /\ Requests <= MAX_RETRIES + 1
    /\ Requests = MAX_RETRIES + 1 => result # NoResult
    /\ result = NoResult => (retry = Requests /\ Len(waits) = Requests)
    /\ result # NoResult => (retry = Requests - 1 /\ Len(waits) = Requests - 1)
    /\ retry <= MAX_RETRIES

\* Exceptions and retried statuses in turn use up the one counter: the
\* fourth request is the last one and its failure is returned.
C21_Witness ==
    /\ responses = <<"EXCEPTION", "OVER_QUERY_LIMIT", "EXCEPTION", "UNKNOWN_ERROR">>
    /\ retry = MAX_RETRIES
    /\ result = "FAILED"

(***************************************************************************)
(* shop_geocode.py: process_batch and main                                 *)
(***************************************************************************)
\* len(df): the number of input rows; pd.read_csv labels them 0..len(df)-1.
NumRows == 4

\* batch_size of main (line 132), scaled down from 100 so that a second
\* batch exists within NumRows rows.
batch_size == 3

\* ThreadPoolExecutor(max_workers=5) (line 104), scaled down from 5 with
\* batch_size so that a batch has more rows than the pool has threads.
max_workers == 2

Min(a, b) == IF a < b THEN a ELSE b

\* df.iloc[i:i + batch_size] (line 136): the frame's rows in order, each row
\* known by the label it carries from df.
BatchFrame(i) == [k \in 1..(Min(i + batch_size, NumRows) - i) |-> i + k - 1]

FrameLabels(frame) == {frame[k] : k \in 1..Len(frame)}

\* frame.iloc[pos] (line 116): the row at 0-based POSITION pos; it raises
\* IndexError when pos is past the frame's end.
IlocRaises(frame, pos) == pos >= Len(frame)

Iloc(frame, pos) == frame[pos + 1]

Running == {idx \in DOMAIN futures : futures[idx].st = "running"}

\* A variant of the pool that starts every submitted call at once.
PoolAlwaysFree(running) == TRUE

\* The executor runs a queued call only on a thread that is free: it has
\* max_workers threads (line 104).
PoolHasFreeThread(running) == Cardinality(running) < max_workers

\* RATE_LIMIT (line 15), requests per second, scaled down from 50 with
\* batch_size so that len(batch) / RATE_LIMIT stays a few seconds for a full
\* batch (2 in the source, 3 here).
RATE_LIMIT == 1

\* Time is counted in ticks of half a second, the shortest sleep of the
\* script (line 86 with retry = 0).
Ticks(ms) == ms \div 500

\* The window the issued requests are counted over: the tick before and the
\* current one, one second.
NoRequests == <<0, 0>>

\* time.sleep(len(batch) / RATE_LIMIT) (line 147), in milliseconds.
BatchSleep(n) == (n * 1000) \div RATE_LIMIT

GeoMainInit ==
    /\ geoPc = "start"
    /\ batch_start = 0
    /\ futures = <<>>
    /\ results = <<>>
    /\ all_results = <<>>
    /\ output_csv = NoFile
    /\ batches = <<>>
    /\ window_requests = NoRequests
    /\ main_sleep = 0
    /\ GeoCallIdle
    /\ ScrapeIdle
    /\ FlyerIdle
    /\ DetailsIdle
    /\ ExtractIdle
    /\ CreateIdle

\* df = pd.read_csv(INPUT_CSV) (line 128).
MainLoadInput ==
    /\ geoPc = "start"
    /\ geoPc' = "loop"
    /\ UNCHANGED <<batch_start, futures, results, all_results, output_csv, batches,
                   window_requests, main_sleep, geoVars, scrapeVars, flyerVars,
                   detailsVars,
                   extractVars, createVars>>

\* pd.read_csv raises: main's except logs the fatal error (line 158).
MainLoadInputFails ==
    /\ geoPc = "start"
    /\ geoPc' = "fatal"
    /\ UNCHANGED <<batch_start, futures, results, all_results, output_csv, batches,
                   window_requests, main_sleep, geoVars, scrapeVars, flyerVars,
                   detailsVars,
                   extractVars, createVars>>

\* Half a second passes: the sleeps under way come half a second nearer to
\* their end and the window moves on.
Tick ==
    /\ geoPc \in {"loop", "batch"}
    /\ main_sleep' = IF main_sleep > 0 THEN main_sleep - 1 ELSE 0
    /\ futures' = [idx \in DOMAIN futures |->
                     [futures[idx] EXCEPT !.sleep = IF @ > 0 THEN @ - 1 ELSE 0]]
    /\ window_requests' = <<window_requests[2], 0>>
    /\ UNCHANGED <<geoPc, batch_start, results, all_results, output_csv, batches,
                   geoVars, scrapeVars, flyerVars, detailsVars,
                   extractVars, createVars>>

\* The for loop takes the next batch, once the sleep that ended the turn
\* before is over, and process_batch submits one future per row of it, keyed
\* by the row's label idx (lines 135-110).
MainStartBatch ==
    /\ geoPc = "loop"
    /\ main_sleep = 0
    /\ batch_start < NumRows
    /\ futures' = [idx \in FrameLabels(BatchFrame(batch_start)) |->
                     [st |-> "queued", retry |-> 0, sleep |-> 0,
                      geocode_status |-> NoResult]]
    /\ batches' = Append(batches, BatchFrame(batch_start))
    /\ results' = <<>>
    /\ geoPc' = "batch"
    /\ UNCHANGED <<batch_start, all_results, output_csv, window_requests,
                   main_sleep, geoVars, scrapeVars, flyerVars, detailsVars,
                   extractVars, createVars>>

\* A pool thread becomes free and takes the queued call.
FutureStart(idx) ==
    /\ geoPc = "batch"
    /\ idx \in DOMAIN futures
    /\ futures[idx].st = "queued"
    /\ PoolHasFreeThread(Running)
    /\ futures' = [futures EXCEPT ![idx].st = "running"]
    /\ UNCHANGED <<geoPc, batch_start, results, all_results, output_csv, batches,
                   window_requests, main_sleep, geoVars, scrapeVars, flyerVars,
                   detailsVars,
                   extractVars, createVars>>

\* The call running in a pool thread, not asleep, issues a request that
\* comes to resp: geocode_address sleeps and recurses, or returns its dict.
FutureRequest(idx, resp) ==
    /\ geoPc = "batch"
    /\ idx \in DOMAIN futures
    /\ futures[idx].st = "running"
    /\ futures[idx].sleep = 0
    /\ LET a == geocode_attempt(futures[idx].retry, resp) IN
         futures' = [futures EXCEPT ![idx] =
            IF a.again
            THEN [st |-> "running", retry |-> @.retry + 1, sleep |-> Ticks(a.wait),
                  geocode_status |-> NoResult]
            ELSE [st |-> "finished", retry |-> 0, sleep |-> 0,
                  geocode_status |-> a.geocode_status]]
    /\ window_requests' = <<window_requests[1], window_requests[2] + 1>>
    /\ UNCHANGED <<geoPc, batch_start, results, all_results, output_csv, batches,
                   main_sleep, geoVars, scrapeVars, flyerVars, detailsVars,
                   extractVars, createVars>>

\* One turn of the as_completed loop (lines 112-119): the row is looked up
\* with batch_df.iloc[idx] and appended with the result; the IndexError of
\* the lookup is caught and logged and nothing is appended.
CollectFuture(idx) ==
    /\ geoPc = "batch"
    /\ idx \in DOMAIN futures
    /\ futures[idx].st = "finished"
    /\ futures' = [futures EXCEPT ![idx].st = "collected"]
    /\ LET batch_df == BatchFrame(batch_start) IN
         results' = IF IlocRaises(batch_df, idx)
                    THEN results
                    ELSE Append(results,
                           [row |-> Iloc(batch_df, idx),
                            geocode_status |-> futures[idx].geocode_status])
    /\ UNCHANGED <<geoPc, batch_start, all_results, output_csv, batches,
                   window_requests, main_sleep, geoVars, scrapeVars, flyerVars,
                   detailsVars,
                   extractVars, createVars>>

AllCollected == \A idx \in DOMAIN futures : futures[idx].st = "collected"

\* process_batch returns, main appends the frame and saves everything so far
\* to OUTPUT_CSV, starts its sleep, and goes on to the next batch
\* (lines 139-147).
MainSaveBatch ==
    /\ geoPc = "batch"
    /\ AllCollected
    /\ all_results' = all_results \o results
    /\ output_csv' = File(all_results')
    /\ main_sleep' = Ticks(BatchSleep(Len(BatchFrame(batch_start))))
    /\ batch_start' = batch_start + batch_size
    /\ futures' = <<>>
    /\ results' = <<>>
    /\ geoPc' = "loop"
    /\ UNCHANGED <<batches, window_requests, geoVars, scrapeVars, flyerVars,
                   detailsVars,
                   extractVars, createVars>>

\* to_csv raises during the intermediate save: main's except (line 158).
MainSaveBatchFails ==
    /\ geoPc = "batch"
    /\ AllCollected
    /\ all_results' = all_results \o results
    /\ futures' = <<>>
    /\ results' = <<>>
    /\ geoPc' = "fatal"
    /\ UNCHANGED <<batch_start, output_csv, batches, window_requests, main_sleep,
                   geoVars, scrapeVars, flyerVars, detailsVars,
                   extractVars, createVars>>

\* The loop is over: final save and statistics (lines 150-156).
MainFinalSave ==
    /\ geoPc = "loop"
    /\ main_sleep = 0
    /\ batch_start >= NumRows
    /\ output_csv' = File(all_results)
    /\ geoPc' = "done"
    /\ UNCHANGED <<batch_start, futures, results, all_results, batches,
                   window_requests, main_sleep, geoVars, scrapeVars, flyerVars,
                   detailsVars,
                   extractVars, createVars>>

MainFinalSaveFails ==
    /\ geoPc = "loop"
    /\ main_sleep = 0
    /\ batch_start >= NumRows
    /\ geoPc' = "fatal"
    /\ UNCHANGED <<batch_start, futures, results, all_results, output_csv, batches,
                   window_requests, main_sleep, geoVars, scrapeVars, flyerVars,
                   detailsVars,
                   extractVars, createVars>>

GeoMainNext ==
    \/ MainLoadInput
    \/ MainLoadInputFails
    \/ Tick
    \/ MainStartBatch
    \/ \E idx \in 0..(NumRows - 1) : FutureStart(idx)
    \/ \E idx \in 0..(NumRows - 1), resp \in Responses : FutureRequest(idx, resp)
    \/ \E idx \in 0..(NumRows - 1) : CollectFuture(idx)
    \/ MainSaveBatch
    \/ MainSaveBatchFails
    \/ MainFinalSave
    \/ MainFinalSaveFails

SpecGeocodeMain == GeoMainInit /\ [][GeoMainNext]_vars

(***************************************************************************)
(* Claims about shop_geocode main, checked under SpecGeocodeMain.          *)
(***************************************************************************)
OutputRowsFor(r) == {k \in 1..Len(output_csv.rows) : output_csv.rows[k].row = r}

\* C1: when main has completed, the output dataset holds exactly one row for
\* every input row, of every batch, and that row carries a geocode_status
\* (SUCCESS, FAILED or ERROR).
C1_EveryInputRowRecorded ==
    geoPc = "done" =>
        \A r \in 0..(NumRows - 1) :
            /\ Cardinality(OutputRowsFor(r)) = 1
            /\ \A k \in OutputRowsFor(r) :
                 output_csv.rows[k].geocode_status \in {"SUCCESS", "FAILED", "ERROR"}

\* The calls of geocode_address a pool thread has taken and not finished:
\* each of them has a request under way or is asleep before its next one.
InFlight == Running

\* The rows of the batches handed to process_batch before the current one.
EarlierRows ==
    UNION {FrameLabels(batches[k]) : k \in 1..(Len(batches) - 1)}

WindowRequests == window_requests[1] + window_requests[2]

\* C12: in the window of W = 1 second that ends now, the requests issued by
\* all threads together, first attempts and retries, are at most
\* RATE_LIMIT * W.
C12_RequestRateWithinLimit == WindowRequests <= RATE_LIMIT * 1

(***************************************************************************)
(* shop_scrape.py                                                          *)
(***************************************************************************)
\* chunk_size of main (line 316), scaled down from 4 with the number of cities.
chunk_size == 2

\* How many result items one result page has at most.
MaxStores == 1

\* The store links (href of a.jet-ajax-search__item-link) the site can list.
Links == {"store-a", "store-b"}

\* A variant of the slice that gives nothing when fewer than chunk_size
\* cities are left.
ChunkWithoutShortTail(i) ==
    {c \in Cities : i < c /\ c <= i + chunk_size /\ i + chunk_size <= NumCities}

\* MAJOR_CITIES[i:i + chunk_size] (line 318).
Chunk(i) == {c \in Cities : i < c /\ c <= Min(i + chunk_size, NumCities)}

\* The stores list a result page can give: one dict per item whose three
\* fields could be read (lines 235-250), in page order.
StoreLists(c) ==
    UNION {[1..n -> {[City |-> c, Link |-> l] : l \in Links}] : n \in 0..MaxStores}

\* What is left of a worker process once pool.map has returned its result.
Joined(w) == [IdleWorker EXCEPT !.pc = "joined", !.ret = w.ret, !.saved = w.saved]

\* driver.quit() on the driver the variable refers to, n times.
QuitDriver(w, n) ==
    IF w.driver = NoDriver THEN w.quits ELSE [w.quits EXCEPT ![w.driver] = @ + n]

\* A variant of the except of line 263 that re-raises the last failure
\* instead of returning False.
ExceptAndReraise(w, kind) ==
    [w EXCEPT !.retry_count = @ + 1,
              !.attempts = Append(@, kind),
              !.pc = IF w.retry_count + 1 >= max_retries THEN "raised" ELSE "loop"]

\* An exception reaches the except of line 263: retry_count += 1, `if driver:
\* driver.quit()`, then `return False` or `continue`; either way the finally
\* of line 278 runs after it and quits the same driver again.
ExceptAndFinally(w, kind) ==
    [w EXCEPT !.retry_count = @ + 1,
              !.quits = QuitDriver(w, 2),
              !.attempts = Append(@, kind),
              !.pc = IF w.retry_count + 1 >= max_retries THEN "returned" ELSE "loop",
              !.ret = IF w.retry_count + 1 >= max_retries THEN "False" ELSE @]

ScrapeInit ==
    /\ scrapePc = "start"
    /\ chunk_start = 0
    /\ worker = [c \in Cities |-> IdleWorker]
    \* what an earlier run left behind: a final dataset, a checkpoint
    /\ prior_output \in {NoFile, File(<<[City |-> 1, Link |-> "store-a"]>>)}
    /\ output_file = prior_output
    /\ output_tmp = NoFile
    /\ \E stale \in {NoFile, File(<<[City |-> 1, Link |-> "store-b"]>>)} :
         temp_dir = [c \in Cities |-> IF c = 1 THEN stale ELSE NoFile]
    /\ prior_temp = temp_dir
    /\ temp_tmp = [c \in Cities |-> NoFile]
    /\ chunks = <<>>
    /\ GeoCallIdle
    /\ GeoMainIdle
    /\ FlyerIdle
    /\ DetailsIdle
    /\ ExtractIdle
    /\ CreateIdle

\* ---- scrape_dpiu_stores(city), run in a pool process ----

\* driver = setup_driver() returns a new driver (line 193).
SetupDriver(c) ==
    /\ worker[c].pc = "loop"
    /\ worker[c].retry_count < max_retries
    /\ worker' = [worker EXCEPT ![c] =
         [@ EXCEPT !.driver = worker[c].retry_count + 1,
                   !.quits = [@ EXCEPT ![worker[c].retry_count + 1] = 0],
                   !.pc = "session"]]
    /\ UNCHANGED <<scrapePc, chunk_start, temp_dir, temp_tmp, output_file,
                   output_tmp, prior_output, prior_temp, chunks, geoVars, geoMainVars,
                   flyerVars, detailsVars,
                   extractVars, createVars>>

\* setup_driver() raises (line 95): driver still names the driver of the
\* attempt before, if there was one.
SetupDriverFails(c) ==
    /\ worker[c].pc = "loop"
    /\ worker[c].retry_count < max_retries
    /\ worker' = [worker EXCEPT ![c] = ExceptAndFinally(@, "setup_failed")]
    /\ UNCHANGED <<scrapePc, chunk_start, temp_dir, temp_tmp, output_file,
                   output_tmp, prior_output, prior_temp, chunks, geoVars, geoMainVars,
                   flyerVars, detailsVars,
                   extractVars, createVars>>

\* webdriver.Chrome has started the browser (line 86) and setting a timeout
\* raises (lines 89-90): setup_driver logs and re-raises (lines 93-95) with
\* the new driver referenced by nothing, so nobody quits it; driver in
\* scrape_dpiu_stores still names the driver of the attempt before.
SetupDriverLeaks(c) ==
    /\ worker[c].pc = "loop"
    /\ worker[c].retry_count < max_retries
    /\ worker' = [worker EXCEPT ![c] =
         ExceptAndFinally([@ EXCEPT !.quits[worker[c].retry_count + 1] = 0],
                          "setup_failed")]
    /\ UNCHANGED <<scrapePc, chunk_start, temp_dir, temp_tmp, output_file,
                   output_tmp, prior_output, prior_temp, chunks, geoVars,
                   geoMainVars, flyerVars, detailsVars,
                   extractVars, createVars>>

\* driver.get or the wait for the body raises (lines 197-205), or the search
\* field cannot be found or filled (lines 211-217, 256-258): re-raised to the
\* except of line 263.
AttemptRaises(c, kind) ==
    /\ worker[c].pc = "session"
    /\ kind \in {"load_timeout", "search_failed"}
    /\ worker' = [worker EXCEPT ![c] = ExceptAndFinally(@, kind)]
    /\ UNCHANGED <<scrapePc, chunk_start, temp_dir, temp_tmp, output_file,
                   output_tmp, prior_output, prior_temp, chunks, geoVars, geoMainVars,
                   flyerVars, detailsVars,
                   extractVars, createVars>>

\* A variant of the not-found return that takes the retry path instead.
AttemptNoResultsRetried(c, kind) ==
    /\ worker[c].pc = "session"
    /\ kind \in {"no_results", "wait_timeout"}
    /\ worker' = [worker EXCEPT ![c] = ExceptAndFinally(@, kind)]
    /\ UNCHANGED <<scrapePc, chunk_start, temp_dir, temp_tmp, output_file,
                   output_tmp, prior_output, prior_temp, chunks, geoVars, geoMainVars,
                   flyerVars, detailsVars,
                   extractVars, createVars>>

\* The no-results marker is there (line 229), or no result item appears
\* within the wait or reading the list raises (line 254): return False, and
\* the finally quits the driver.
AttemptNoResults(c, kind) ==
    /\ worker[c].pc = "session"
    /\ kind \in {"no_results", "wait_timeout"}
    /\ worker' = [worker EXCEPT ![c] =
         [@ EXCEPT !.quits = QuitDriver(worker[c], 1),
                   !.attempts = Append(@, kind),
                   !.pc = "returned",
                   !.ret = "False"]]
    /\ UNCHANGED <<scrapePc, chunk_start, temp_dir, temp_tmp, output_file,
                   output_tmp, prior_output, prior_temp, chunks, geoVars, geoMainVars,
                   flyerVars, detailsVars,
                   extractVars, createVars>>

\* The result items are read into stores and the loop is left by break
\* (line 261), the finally quits the driver; with no store read the function
\* returns False (line 288), else it calls save_temp_results (line 287).
AttemptFound(c, found) ==
    /\ worker[c].pc = "session"
    /\ found \in StoreLists(c)
    /\ worker' = [worker EXCEPT ![c] =
         [@ EXCEPT !.quits = QuitDriver(worker[c], 1),
                   !.attempts = Append(@, "found"),
                   !.stores = found,
                   !.pc = IF found = <<>> THEN "returned" ELSE "save",
                   !.ret = IF found = <<>> THEN "False" ELSE @]]
    /\ UNCHANGED <<scrapePc, chunk_start, temp_dir, temp_tmp, output_file,
                   output_tmp, prior_output, prior_temp, chunks, geoVars, geoMainVars,
                   flyerVars, detailsVars,
                   extractVars, createVars>>

\* ---- save_temp_results(city, stores) ----

\* df.to_csv(temp_file_tmp) (line 127).
WriteTempFile(c) ==
    /\ worker[c].pc = "save"
    /\ worker[c].stores # <<>>
    /\ temp_tmp' = [temp_tmp EXCEPT ![c] = File(worker[c].stores)]
    /\ worker' = [worker EXCEPT ![c].pc = "replace"]
    /\ UNCHANGED <<scrapePc, chunk_start, temp_dir, output_file, output_tmp,
                   prior_output, prior_temp, chunks, geoVars, geoMainVars,
                   flyerVars, detailsVars,
                   extractVars, createVars>>

\* A variant of the failed write that writes under the final name, with no
\* .tmp file in between.
WriteTempFileFailsInPlace(c) ==
    /\ worker[c].pc = "save"
    /\ worker[c].stores # <<>>
    /\ temp_dir' = [temp_dir EXCEPT ![c] = PartialFile]
    /\ worker' = [worker EXCEPT ![c] =
         [@ EXCEPT !.pc = "returned", !.ret = "False", !.saved = "failed",
                   !.stores = <<>>]]
    /\ UNCHANGED <<scrapePc, chunk_start, temp_tmp, output_file, output_tmp,
                   prior_output, prior_temp, chunks, geoVars, geoMainVars, flyerVars,
                   detailsVars,
                   extractVars, createVars>>

\* to_csv raises part way: logged, return False (lines 132-134).
WriteTempFileFails(c) ==
    /\ worker[c].pc = "save"
    /\ worker[c].stores # <<>>
    /\ temp_tmp' = [temp_tmp EXCEPT ![c] = PartialFile]
    /\ worker' = [worker EXCEPT ![c] =
         [@ EXCEPT !.pc = "returned", !.ret = "False", !.saved = "failed",
                   !.stores = <<>>]]
    /\ UNCHANGED <<scrapePc, chunk_start, temp_dir, output_file, output_tmp,
                   prior_output, prior_temp, chunks, geoVars, geoMainVars,
                   flyerVars, detailsVars,
                   extractVars, createVars>>

\* A variant of the replace that adds the new rows to the file already there.
ReplaceTempFileAppending(c) ==
    /\ worker[c].pc = "replace"
    /\ temp_dir' = [temp_dir EXCEPT ![c] = File(@.rows \o temp_tmp[c].rows)]
    /\ temp_tmp' = [temp_tmp EXCEPT ![c] = NoFile]
    /\ worker' = [worker EXCEPT ![c] =
         [@ EXCEPT !.pc = "returned", !.ret = "True", !.saved = "written",
                   !.stores = <<>>]]
    /\ UNCHANGED <<scrapePc, chunk_start, output_file, output_tmp, prior_output,
                   prior_temp, chunks, geoVars, geoMainVars, flyerVars,
                   detailsVars,
                   extractVars, createVars>>

\* os.replace(temp_file_tmp, temp_file), return True (lines 128-131).
ReplaceTempFile(c) ==
    /\ worker[c].pc = "replace"
    /\ temp_dir' = [temp_dir EXCEPT ![c] = temp_tmp[c]]
    /\ temp_tmp' = [temp_tmp EXCEPT ![c] = NoFile]
    /\ worker' = [worker EXCEPT ![c] =
         [@ EXCEPT !.pc = "returned", !.ret = "True", !.saved = "written",
                   !.stores = <<>>]]
    /\ UNCHANGED <<scrapePc, chunk_start, output_file, output_tmp, prior_output, prior_temp,
                   chunks, geoVars, geoMainVars,
                   flyerVars, detailsVars,
                   extractVars, createVars>>

\* os.replace raises: logged, return False (lines 132-134).
ReplaceTempFileFails(c) ==
    /\ worker[c].pc = "replace"
    /\ worker' = [worker EXCEPT ![c] =
         [@ EXCEPT !.pc = "returned", !.ret = "False", !.saved = "failed",
                   !.stores = <<>>]]
    /\ UNCHANGED <<scrapePc, chunk_start, temp_dir, temp_tmp, output_file,
                   output_tmp, prior_output, prior_temp, chunks, geoVars, geoMainVars,
                   flyerVars, detailsVars,
                   extractVars, createVars>>

\* ---- main ----

\* os.remove(output_file) when it exists (lines 297-300).
RemoveOldOutput ==
    /\ scrapePc = "start"
    /\ output_file' = NoFile
    /\ scrapePc' = "clear_temp"
    /\ UNCHANGED <<chunk_start, worker, temp_dir, temp_tmp, output_tmp,
                   prior_output, prior_temp, chunks, geoVars, geoMainVars,
                   flyerVars, detailsVars,
                   extractVars, createVars>>

\* os.remove(output_file) raises: logged and re-raised out of main
\* (lines 301-303, 335-337).
RemoveOldOutputFails ==
    /\ scrapePc = "start"
    /\ output_file # NoFile
    /\ scrapePc' = "raised"
    /\ UNCHANGED <<chunk_start, worker, temp_dir, temp_tmp, output_file,
                   output_tmp, prior_output, prior_temp, chunks, geoVars, geoMainVars,
                   flyerVars, detailsVars,
                   extractVars, createVars>>

\* Every file of TEMP_DIR is removed, except those whose os.remove raises,
\* which is logged (lines 306-310).
ClearTempDir(kept) ==
    /\ scrapePc = "clear_temp"
    /\ kept \subseteq {c \in Cities : temp_dir[c] # NoFile}
    /\ temp_dir' = [c \in Cities |-> IF c \in kept THEN temp_dir[c] ELSE NoFile]
    /\ temp_tmp' = [c \in Cities |-> NoFile]
    /\ scrapePc' = "dispatch"
    /\ UNCHANGED <<chunk_start, worker, output_file, output_tmp, prior_output, prior_temp,
                   chunks, geoVars, geoMainVars,
                   flyerVars, detailsVars,
                   extractVars, createVars>>

\* The next chunk goes to a pool of len(chunk) processes, one city each
\* (lines 317-322).
StartChunk ==
    /\ scrapePc = "dispatch"
    /\ chunk_start < NumCities
    /\ worker' = [c \in Cities |->
                    IF c \in Chunk(chunk_start) THEN FreshWorker ELSE worker[c]]
    /\ chunks' = Append(chunks, Chunk(chunk_start))
    /\ scrapePc' = "pool"
    /\ UNCHANGED <<chunk_start, temp_dir, temp_tmp, output_file, output_tmp,
                   prior_output, prior_temp, geoVars, geoMainVars,
                   flyerVars, detailsVars,
                   extractVars, createVars>>

\* pool.map returns once every city of the chunk has returned; main counts
\* the true results, logs, sleeps and goes on (lines 322-326).
ChunkCompleted ==
    /\ scrapePc = "pool"
    /\ \A c \in Chunk(chunk_start) : worker[c].pc = "returned"
    /\ worker' = [c \in Cities |->
                    IF c \in Chunk(chunk_start) THEN Joined(worker[c]) ELSE worker[c]]
    /\ chunk_start' = chunk_start + chunk_size
    /\ scrapePc' = "dispatch"
    /\ UNCHANGED <<temp_dir, temp_tmp, output_file, output_tmp, prior_output, prior_temp,
                   chunks, geoVars, geoMainVars,
                   flyerVars, detailsVars,
                   extractVars, createVars>>

\* ---- merge_temp_files(output_file), called by main after the last chunk ----

\* os.listdir(TEMP_DIR) filtered to temp_*.csv (line 140): the .tmp files
\* do not end in .csv.
TempFiles == {c \in Cities : temp_dir[c] # NoFile}

AtMerge == scrapePc = "dispatch" /\ chunk_start >= NumCities

\* The orders os.listdir can give the files in.
Orders(files) ==
    {o \in [1..Cardinality(files) -> files] :
        \A i, j \in 1..Cardinality(files) : i # j => o[i] # o[j]}

\* pd.concat(dfs, ignore_index=True) (line 162) of the frames that loaded.
RECURSIVE Concat(_, _)
Concat(order, unreadable) ==
    IF order = <<>> THEN <<>>
    ELSE (IF Head(order) \in unreadable THEN <<>> ELSE temp_dir[Head(order)].rows)
         \o Concat(Tail(order), unreadable)

\* No temp file: merge returns False and main raises (lines 142-144, 329-331).
MergeNoTempFiles ==
    /\ AtMerge
    /\ TempFiles = {}
    /\ scrapePc' = "raised"
    /\ UNCHANGED <<chunk_start, worker, temp_dir, temp_tmp, output_file,
                   output_tmp, prior_output, prior_temp, chunks, geoVars, geoMainVars,
                   flyerVars, detailsVars,
                   extractVars, createVars>>

\* Every pd.read_csv raised: merge returns False and main raises
\* (lines 154-160, 329-331).
MergeNoValidData ==
    /\ AtMerge
    /\ TempFiles # {}
    /\ scrapePc' = "raised"
    /\ UNCHANGED <<chunk_start, worker, temp_dir, temp_tmp, output_file,
                   output_tmp, prior_output, prior_temp, chunks, geoVars, geoMainVars,
                   flyerVars, detailsVars,
                   extractVars, createVars>>

\* final_df.to_csv(output_tmp) raises: merge returns False and main raises
\* (lines 166, 180-182, 329-331).
MergeWriteFails ==
    /\ AtMerge
    /\ TempFiles # {}
    /\ output_tmp' = PartialFile
    /\ scrapePc' = "raised"
    /\ UNCHANGED <<chunk_start, worker, temp_dir, temp_tmp, output_file,
                   prior_output, prior_temp, chunks, geoVars, geoMainVars,
                   flyerVars, detailsVars,
                   extractVars, createVars>>

\* The files that load are concatenated in listdir order, written to
\* output_tmp and moved over output_file (lines 146-169).
MergeTempFiles(order, unreadable) ==
    /\ AtMerge
    /\ order \in Orders(TempFiles)
    /\ unreadable \subseteq TempFiles
    /\ unreadable # TempFiles
    /\ output_file' = File(Concat(order, unreadable))
    /\ scrapePc' = "cleanup"
    /\ UNCHANGED <<chunk_start, worker, temp_dir, temp_tmp, output_tmp,
                   prior_output, prior_temp, chunks, geoVars, geoMainVars,
                   flyerVars, detailsVars,
                   extractVars, createVars>>

\* Every listed temp file is removed, except those whose os.remove raises,
\* which is logged; merge returns True and main ends (lines 171-178, 333).
CleanUpTempFiles(unremovable) ==
    /\ scrapePc = "cleanup"
    /\ unremovable \subseteq TempFiles
    /\ temp_dir' = [c \in Cities |-> IF c \in unremovable THEN temp_dir[c] ELSE NoFile]
    /\ scrapePc' = "done"
    /\ UNCHANGED <<chunk_start, worker, temp_tmp, output_file, output_tmp,
                   prior_output, prior_temp, chunks, geoVars, geoMainVars,
                   flyerVars, detailsVars,
                   extractVars, createVars>>

ScrapeNext ==
    \/ RemoveOldOutput
    \/ RemoveOldOutputFails
    \/ \E kept \in SUBSET Cities : ClearTempDir(kept)
    \/ StartChunk
    \/ \E c \in Cities : SetupDriver(c)
    \/ \E c \in Cities : SetupDriverFails(c)
    \/ \E c \in Cities : SetupDriverLeaks(c)
    \/ \E c \in Cities, kind \in {"load_timeout", "search_failed"} : AttemptRaises(c, kind)
    \/ \E c \in Cities, kind \in {"no_results", "wait_timeout"} : AttemptNoResults(c, kind)
    \/ \E c \in Cities : \E found \in StoreLists(c) : AttemptFound(c, found)
    \/ \E c \in Cities : WriteTempFile(c)
    \/ \E c \in Cities : WriteTempFileFails(c)
    \/ \E c \in Cities : ReplaceTempFile(c)
    \/ \E c \in Cities : ReplaceTempFileFails(c)
    \/ ChunkCompleted
    \/ MergeNoTempFiles
    \/ MergeNoValidData
    \/ MergeWriteFails
    \/ \E unreadable \in SUBSET Cities :
         \E order \in Orders(TempFiles) : MergeTempFiles(order, unreadable)
    \/ \E unremovable \in SUBSET Cities : CleanUpTempFiles(unremovable)

SpecScrape == ScrapeInit /\ [][ScrapeNext]_vars

(***************************************************************************)
(* Claims about shop_scrape, checked under SpecScrape.                     *)
(***************************************************************************)
Drivers == 1..max_retries

\* C2: every WebDriver that setup_driver created in scrape_dpiu_stores is
\* quit exactly once: never quit twice, and quit by the time the call has
\* returned.
C2_DriverQuitExactlyOnce ==
    \A c \in Cities : \A d \in Drivers :
        /\ worker[c].quits[d] <= 1
        /\ (worker[c].pc = "returned" /\ worker[c].quits[d] # NotCreated)
           => worker[c].quits[d] = 1

\* C3: the final dataset merge_temp_files writes never holds two records
\* with the same store Link.
C3_NoDuplicateLinkInOutput ==
    scrapePc \in {"cleanup", "done"} =>
        \A i, j \in 1..Len(output_file.rows) :
            i # j => output_file.rows[i].Link # output_file.rows[j].Link

\* C5: when a good final dataset existed before main started and the run
\* ends without a successful merge (main raised), the output file still
\* exists with its previous content.
C5_FailedRunKeepsPriorOutput ==
    (prior_output # NoFile /\ scrapePc = "raised") => output_file = prior_output

\* C6: when main has dispatched every chunk and reaches the merge, every
\* city has a written checkpoint, whether its scrape succeeded or failed.
C6_EveryCityCheckpointedAtMerge ==
    AtMerge => \A c \in Cities : temp_dir[c] # NoFile

\* The chunk a city is dispatched in, counted from 0.
ChunkOf(c) == (c - 1) \div chunk_size

\* C7: once a city's checkpoint could not be persisted the run aborts: no
\* city of a later chunk is started and the merge does not write the output.
C7_PersistFailureAbortsRun ==
    \A c \in Cities :
        worker[c].saved = "failed" =>
            /\ \A d \in Cities : ChunkOf(d) > ChunkOf(c) => worker[d].pc = "idle"
            /\ scrapePc \notin {"cleanup", "done"}

\* C10: a city whose page fetch timed out on the first two attempts is given
\* a third attempt (the call does not return after two), and when the third
\* attempt finds stores and checkpoints them the call returns True after
\* exactly 3 attempts.
C10_ThirdAttemptAfterTwoTimeouts ==
    \A c \in Cities :
        LET a == worker[c].attempts IN
        ( /\ worker[c].pc = "returned"
          /\ Len(a) >= 2
          /\ a[1] = "load_timeout"
          /\ a[2] = "load_timeout" )
        => /\ Len(a) >= 3
           /\ (a[3] = "found" /\ worker[c].saved = "written")
              => (Len(a) = 3 /\ worker[c].ret = "True")

\* The rows of the checkpoints that are in TEMP_DIR under their final name.
CheckpointRows ==
    UNION {{temp_dir[c].rows[k] : k \in 1..Len(temp_dir[c].rows)} : c \in Cities}

\* C13: a checkpoint under its final name is never a part-written file (it
\* is absent, or the whole of a .tmp file moved there by os.replace); when
\* merge_temp_files runs no worker is still writing; and every row the merge
\* wrote came from a checkpoint under its final name, none from a .tmp file.
C13_NoPartialCheckpointObserved ==
    /\ \A c \in Cities : temp_dir[c].state \in {"absent", "complete"}
    /\ (AtMerge \/ scrapePc = "cleanup")
       => \A c \in Cities : worker[c].pc = "joined"
    /\ scrapePc = "cleanup"
       => \A k \in 1..Len(output_file.rows) : output_file.rows[k] \in CheckpointRows

\* The merge has run while one city's .tmp file lies part-written beside the
\* complete checkpoint of another city.
C13_Witness ==
    /\ scrapePc = "cleanup"
    /\ \E c \in Cities : temp_tmp[c].state = "partial" /\ temp_dir[c].state = "absent"
    /\ \E c \in Cities : temp_dir[c].state = "complete"
    /\ output_file.rows # <<>>

\* C23: the checkpoints the run before left in TEMP_DIR are still there when
\* this run of main dispatches its chunks and when it comes to its merge: a
\* city that had a checkpoint at the start has one (that one, or the one this
\* run saved over it) as long as the merge has not run.
C23_PriorCheckpointsKeptUntilMerge ==
    scrapePc \in {"dispatch", "pool"} =>
        \A c \in Cities : prior_temp[c] # NoFile => temp_dir[c] # NoFile

\* The drivers of the worker of city c whose browser was started and which
\* were never quit, and those of all workers together.
Live(c) == {d \in Drivers : worker[c].quits[d] = 0}

LiveSessions == {cd \in Cities \X Drivers : cd[2] \in Live(cd[1])}

Started(c) == worker[c].pc \notin {"idle", "joined"}

\* C25: at most chunk_size WebDriver sessions are live at any time over all
\* workers, a worker has at most one live session at a time (a retry starts
\* its driver only when the driver of the attempt before has been quit), and
\* a city is started only when every city of the chunks before has returned
\* and been joined.
C25_LiveSessionsBounded ==
    /\ Cardinality(LiveSessions) <= chunk_size
    /\ \A c \in Cities : Cardinality(Live(c)) <= 1
    /\ \A c, e \in Cities :
         (Started(c) /\ ChunkOf(e) < ChunkOf(c)) => worker[e].pc = "joined"

\* The rows of file f that the final dataset does not hold.
RowsNotIn(f, out) ==
    {k \in 1..Len(f.rows) : \A j \in 1..Len(out.rows) : out.rows[j] # f.rows[k]}

\* C27: the clean-up of merge_temp_files removes a file of TEMP_DIR only if
\* its rows are in the final dataset the merge wrote: a checkpoint that
\* failed to load is still in TEMP_DIR after the clean-up.
C27_CleanUpRemovesOnlyMergedFiles ==
    [][\A c \in Cities :
         (scrapePc = "cleanup" /\ temp_dir[c] # NoFile /\ temp_dir'[c] = NoFile)
         => RowsNotIn(temp_dir[c], output_file) = {}]_vars

(***************************************************************************)
(* flyer_scraping.py                                                       *)
(***************************************************************************)
\* len(pd.read_csv(INPUT_CSV)): the input rows carry the labels
\* 0..NumStores-1.
NumStores == 4

\* The period of main's periodic save (line 192), scaled down from 10 with
\* the number of rows.
FlyerSaveEvery == 2

StoreLabels == 0..(NumStores - 1)

\* The rows of a frame that are left when the rows in `dropped` are taken
\* out (dropna, line 171; drop_duplicates, shop_details line 257): they keep
\* the labels they had.
KeptRows(n, dropped) ==
    SelectSeq([k \in 1..n |-> k - 1], LAMBDA label : label \notin dropped)

\* A cell pd.read_csv found empty.
NaN == "NaN"

\* The two columns main reads (lines 171, 184-185).
Columns == {"Shop ID", "Store URL"}

\* The files INPUT_CSV can be: every row has the two columns, each cell with
\* a value or empty.
InputFiles == [StoreLabels -> [Columns -> {"value", NaN}]]

\* row[column] of the frame read from INPUT_CSV.
Cell(frame, label, column) == frame[label][column]

\* A variant of dropna that drops a row only when all the columns of
\* subset are missing (how='all').
dropna_all(frame, subset) ==
    SelectSeq([k \in 1..NumStores |-> k - 1],
              LAMBDA label : \E column \in subset : Cell(frame, label, column) # NaN)

\* data.dropna(subset=[...]) (line 171): the rows with no missing value in
\* the columns of subset, in order, under the labels they had.
dropna(frame, subset) ==
    SelectSeq([k \in 1..NumStores |-> k - 1],
              LAMBDA label : \A column \in subset : Cell(frame, label, column) # NaN)

\* What a store page can come to inside process_store.
StorePages ==
    {"session_died",       \* the browser session ends, driver.get raises (line 62)
     "get_raises",         \* driver.get(store_url) raises
     "carousel_missing",   \* the wait for .CardCarousel times out (line 68)
     "no_flyer_links",     \* the carousel holds no /volantini/ link (line 78)
     "no_pdf",             \* no flyer page gave a .pdf link (line 118 false)
     "pdf_found"}          \* some flyer page gave a .pdf link

\* A variant of process_store that reports success whenever the carousel
\* held flyer links, whether a page gave a .pdf link or not.
process_store_by_flyers(driver, store_id, page) ==
    [shop_id |-> store_id,
     pdf_links |-> IF page = "pdf_found" THEN <<"pdf">> ELSE <<>>,
     status |-> IF page \in {"session_died", "get_raises"} THEN "error"
                ELSE IF page \in {"no_pdf", "pdf_found"} THEN "success"
                ELSE "No flyers",
     page |-> page, on_broken |-> driver.broken]

\* A variant of quitting a driver that quits it twice.
QuitSessionTwice(d) == [d EXCEPT !.quits = @ + 2]

\* driver.quit() (flyer_scraping line 206, shop_details line 276).
QuitSession(d) == [d EXCEPT !.quits = @ + 1]

\* process_store(driver, store_id, store_url, logger) for a page that comes
\* to `page`: the dict it returns; kept beside it, what the page came to and
\* whether the session had already ended when the call was made.
process_store(driver, store_id, page) ==
    LET initial == [shop_id |-> store_id, pdf_links |-> <<>>, status |-> "No flyers",
                    page |-> page, on_broken |-> driver.broken]
    IN  IF page \in {"session_died", "get_raises"}
        THEN [initial EXCEPT !.status = "error"]
        ELSE IF page \in {"carousel_missing", "no_flyer_links"}
        THEN initial
        ELSE IF page = "pdf_found"
        THEN [initial EXCEPT !.pdf_links = <<"pdf">>, !.status = "success"]
        ELSE initial

\* The dict main appends when the try of line 187 raises (lines 197-202).
ErrorResult(store_id) ==
    [shop_id |-> store_id, pdf_links |-> <<>>, status |-> "error", page |-> "none",
     on_broken |-> FALSE]

\* How a call of save_results can go: OUTPUT_FILE written; OUTPUT_FILE
\* failed part way and the fallback file written; both failed and the rows
\* only logged; os.makedirs raised (line 131, outside every try).
SaveOutcomes == {"saved", "fallback", "lost", "raised"}

\* save_results(results, logger) (lines 129-160): the two files after it.
save_results(rows, how) ==
    IF how = "saved" THEN [output |-> File(rows), fallback |-> flyer_fallback]
    ELSE IF how = "fallback" THEN [output |-> PartialFile, fallback |-> File(rows)]
    ELSE IF how = "lost" THEN [output |-> PartialFile, fallback |-> PartialFile]
    ELSE [output |-> flyer_output, fallback |-> flyer_fallback]

\* index % 10 == 0 and index > 0 (line 192), on the row's label.
FlyerSaveDue(index) == index % FlyerSaveEvery = 0 /\ index > 0

FlyerInit ==
    /\ flyerPc = "start"
    /\ flyer_csv \in InputFiles
    /\ flyer_data = <<>>
    /\ flyer_pos = 1
    /\ flyer_results = <<>>
    /\ flyer_driver = NoSession
    /\ flyer_output = NoFile
    /\ flyer_fallback = NoFile
    /\ GeoCallIdle
    /\ GeoMainIdle
    /\ ScrapeIdle
    /\ DetailsIdle
    /\ ExtractIdle
    /\ CreateIdle

\* read_csv and dropna (lines 170-171).
FlyerLoadInput ==
    /\ flyerPc = "start"
    /\ flyer_data' = dropna(flyer_csv, Columns)
    /\ flyerPc' = "setup"
    /\ UNCHANGED <<flyer_csv, flyer_pos, flyer_results, flyer_driver, flyer_output,
                   flyer_fallback, geoVars, geoMainVars, scrapeVars, detailsVars,
                   extractVars, createVars>>

\* read_csv raises: logged and re-raised out of main (lines 173-175, 212-214).
FlyerLoadInputFails ==
    /\ flyerPc = "start"
    /\ flyerPc' = "raised"
    /\ UNCHANGED <<flyer_csv, flyer_data, flyer_pos, flyer_results, flyer_driver, flyer_output,
                   flyer_fallback, geoVars, geoMainVars, scrapeVars, detailsVars,
                   extractVars, createVars>>

\* driver = setup_driver() (line 178).
FlyerSetupDriver ==
    /\ flyerPc = "setup"
    /\ flyer_driver' = [NoSession EXCEPT !.created = TRUE]
    /\ flyerPc' = "loop"
    /\ UNCHANGED <<flyer_csv, flyer_data, flyer_pos, flyer_results, flyer_output,
                   flyer_fallback, geoVars, geoMainVars, scrapeVars, detailsVars,
                   extractVars, createVars>>

\* setup_driver() raises: re-raised out of main (lines 212-214).
FlyerSetupDriverFails ==
    /\ flyerPc = "setup"
    /\ flyerPc' = "raised"
    /\ UNCHANGED <<flyer_csv, flyer_data, flyer_pos, flyer_results, flyer_driver, flyer_output,
                   flyer_fallback, geoVars, geoMainVars, scrapeVars, detailsVars,
                   extractVars, createVars>>


\* One turn of the for loop (lines 183-202): process_store on the row
\* iterrows gives, its dict appended, and the periodic save when the row's
\* label asks for it; when the save raises, the except of line 195 appends
\* an error dict for the same store. On a session that has ended every
\* driver.get raises.
FlyerProcessStore(page, how) ==
    /\ flyerPc = "loop"
    /\ flyer_pos <= Len(flyer_data)
    /\ page \in StorePages
    /\ flyer_driver.broken => page = "get_raises"
    /\ LET index == flyer_data[flyer_pos]
           store_result == process_store(flyer_driver, index, page)
           appended == Append(flyer_results, store_result)
       IN  /\ how \in (IF FlyerSaveDue(index) THEN SaveOutcomes ELSE {"none"})
           /\ flyer_results' = IF how = "raised"
                               THEN Append(appended, ErrorResult(index))
                               ELSE appended
           /\ flyer_output' = IF how = "none" THEN flyer_output
                              ELSE save_results(appended, how).output
           /\ flyer_fallback' = IF how = "none" THEN flyer_fallback
                                ELSE save_results(appended, how).fallback
    /\ flyer_driver' = [flyer_driver EXCEPT !.broken = @ \/ page = "session_died"]
    /\ flyer_pos' = flyer_pos + 1
    /\ UNCHANGED <<flyer_csv, flyerPc, flyer_data, geoVars, geoMainVars, scrapeVars, detailsVars,
                   extractVars, createVars>>

\* The loop is over: the finally quits the driver (lines 204-207).
FlyerLoopEnds ==
    /\ flyerPc = "loop"
    /\ flyer_pos > Len(flyer_data)
    /\ flyer_driver' = QuitSession(flyer_driver)
    /\ flyerPc' = "final_save"
    /\ UNCHANGED <<flyer_csv, flyer_data, flyer_pos, flyer_results, flyer_output,
                   flyer_fallback, geoVars, geoMainVars, scrapeVars, detailsVars,
                   extractVars, createVars>>

\* The operator interrupts the script while the loop runs: KeyboardInterrupt
\* is no Exception, so neither the except of line 195 nor that of line 212
\* takes it; the finally quits the driver and the script ends with it.
FlyerInterrupt ==
    /\ flyerPc = "loop"
    /\ flyer_driver' = QuitSession(flyer_driver)
    /\ flyerPc' = "interrupted"
    /\ UNCHANGED <<flyer_csv, flyer_data, flyer_pos, flyer_results, flyer_output,
                   flyer_fallback, geoVars, geoMainVars, scrapeVars, detailsVars,
                   extractVars, createVars>>

\* save_results(all_results, logger) after the loop (line 210); when it
\* raises, main logs and re-raises (lines 212-214).
FlyerFinalSave(how) ==
    /\ flyerPc = "final_save"
    /\ how \in SaveOutcomes
    /\ flyer_output' = save_results(flyer_results, how).output
    /\ flyer_fallback' = save_results(flyer_results, how).fallback
    /\ flyerPc' = IF how = "raised" THEN "raised" ELSE "done"
    /\ UNCHANGED <<flyer_csv, flyer_data, flyer_pos, flyer_results, flyer_driver,
                   geoVars, geoMainVars, scrapeVars, detailsVars,
                   extractVars, createVars>>

FlyerNext ==
    \/ FlyerLoadInput
    \/ FlyerLoadInputFails
    \/ FlyerSetupDriver
    \/ FlyerSetupDriverFails
    \/ \E page \in StorePages, how \in SaveOutcomes \cup {"none"} :
         FlyerProcessStore(page, how)
    \/ FlyerLoopEnds
    \/ FlyerInterrupt
    \/ \E how \in SaveOutcomes : FlyerFinalSave(how)

SpecFlyer == FlyerInit /\ [][FlyerNext]_vars

(***************************************************************************)
(* Claims about flyer_scraping, checked under SpecFlyer.                   *)
(***************************************************************************)
\* The rows of INPUT_CSV with a Shop ID and a Store URL, and the stores
\* process_store was called for so far, in call order.
CompleteRows == {label \in StoreLabels : \A column \in Columns : flyer_csv[label][column] # NaN}

Dispatched == SelectSeq(flyer_results, LAMBDA r : r.page # "none")

\* C24: every store process_store is called for has both its Shop ID and its
\* Store URL, and once the loop has run to its end every row of INPUT_CSV
\* that has both was dispatched, once and in input order.
C24_OnlyCompleteRowsDispatched ==
    /\ \A k \in 1..Len(Dispatched) : Dispatched[k].shop_id \in CompleteRows
    /\ \A j, k \in 1..Len(Dispatched) :
         j < k => Dispatched[j].shop_id < Dispatched[k].shop_id
    /\ flyerPc \in {"final_save", "done"} =>
         CompleteRows = {Dispatched[k].shop_id : k \in 1..Len(Dispatched)}

\* Row 0 has no Shop ID, row 2 no Store URL, rows 1 and 3 are complete: the
\* loop has ended with exactly the stores 1 and 3 dispatched.
C24_Witness ==
    /\ flyerPc = "final_save"
    /\ flyer_csv[0]["Shop ID"] = NaN /\ flyer_csv[0]["Store URL"] # NaN
    /\ flyer_csv[2]["Shop ID"] # NaN /\ flyer_csv[2]["Store URL"] = NaN
    /\ Len(Dispatched) = 2
    /\ Dispatched[1].shop_id = 1
    /\ Dispatched[2].shop_id = 3

\* C29: after any number of turns of the loop all_results holds exactly one
\* entry for every store processed so far, in input order: none is missing
\* and none is there twice, whether process_store returned or the handler of
\* line 195 ran.
C29_OneResultPerProcessedStore ==
    /\ Len(flyer_results) = flyer_pos - 1
    /\ \A k \in 1..Len(flyer_results) :
         k <= Len(flyer_data) /\ flyer_results[k].shop_id = flyer_data[k]

\* C30: in every dict process_store returned the status is 'success' exactly
\* when pdf_links is not empty: a 'No flyers' or an 'error' result carries no
\* link.
C30_SuccessIffPdfLinks ==
    \A k \in 1..Len(Dispatched) :
        /\ Dispatched[k].status \in {"success", "No flyers", "error"}
        /\ Dispatched[k].status = "success" <=> Dispatched[k].pdf_links # <<>>

\* One store of each kind was processed: links found, flyers without a
\* .pdf link, no carousel, and a page that failed to load.
C30_Witness ==
    /\ Len(Dispatched) = 4
    /\ Dispatched[1].page = "pdf_found" /\ Dispatched[1].pdf_links # <<>>
    /\ Dispatched[2].page = "no_pdf" /\ Dispatched[2].status = "No flyers"
    /\ Dispatched[3].page = "carousel_missing" /\ Dispatched[3].status = "No flyers"
    /\ Dispatched[4].page = "get_raises" /\ Dispatched[4].status = "error"

(***************************************************************************)
(* shop_details.py                                                         *)
(***************************************************************************)
\* len(pd.read_csv(INPUT_CSV)): the input rows carry the labels 0..NumUrls-1.
NumUrls == 5

UrlLabels == 0..(NumUrls - 1)

\* The period of main's progress save (line 266), scaled down from 5 with
\* the number of rows.
DetailsSaveEvery == 2

\* What a store page can come to inside extract_store_details.
DetailPages ==
    {"session_died",   \* the browser session ends, driver.get raises (line 207)
     "load_failed",    \* driver.get, the wait for h1.title or reading it raises
     "record"}         \* the title was read: a dict is returned (line 237)

\* extract_store_details(driver, url, index) for a page that comes to
\* `page`: a dict, or None from the except of line 246; kept beside it, what
\* the page came to and whether the session had already ended.
extract_store_details(driver, url, page) ==
    [returned |-> IF page = "record" THEN "dict" ELSE "None",
     url |-> url, page |-> page, on_broken |-> driver.broken]

\* (index + 1) % 5 == 0 (line 266), on the row's label.
DetailsSaveDue(index) == (index + 1) % DetailsSaveEvery = 0

DetailsInit ==
    /\ ExtractIdle
    /\ CreateIdle
    /\ detailsPc = "start"
    /\ details_df = <<>>
    /\ details_pos = 1
    /\ details_items = <<>>
    /\ details_results = <<>>
    /\ details_driver = NoSession
    /\ details_temp = NoFile
    /\ details_output = NoFile
    /\ GeoCallIdle
    /\ GeoMainIdle
    /\ ScrapeIdle
    /\ FlyerIdle

\* driver = setup_driver() (line 252).
DetailsSetupDriver ==
    /\ detailsPc = "start"
    /\ details_driver' = [NoSession EXCEPT !.created = TRUE]
    /\ detailsPc' = "load"
    /\ UNCHANGED <<details_df, details_pos, details_items, details_results,
                   details_temp, details_output, geoVars, geoMainVars, scrapeVars,
                   flyerVars,
                   extractVars, createVars>>

\* webdriver.Chrome raises inside setup_driver: sys.exit(1) (lines 54-56).
DetailsSetupDriverFails ==
    /\ detailsPc = "start"
    /\ detailsPc' = "exited"
    /\ UNCHANGED <<details_df, details_pos, details_items, details_results,
                   details_driver, details_temp, details_output, geoVars,
                   geoMainVars, scrapeVars, flyerVars,
                   extractVars, createVars>>

\* read_csv and drop_duplicates(keep='first') (lines 255-257): the rows in
\* `dups` repeat the Store URL of a row above them.
DetailsLoadInput(dups) ==
    /\ detailsPc = "load"
    /\ dups \subseteq UrlLabels \ {0}
    /\ details_df' = KeptRows(NumUrls, dups)
    /\ detailsPc' = "loop"
    /\ UNCHANGED <<details_pos, details_items, details_results, details_driver,
                   details_temp, details_output, geoVars, geoMainVars, scrapeVars,
                   flyerVars,
                   extractVars, createVars>>

\* read_csv raises: the except logs, the finally quits the driver
\* (lines 273-277).
DetailsLoadInputFails ==
    /\ detailsPc = "load"
    /\ details_driver' = QuitSession(details_driver)
    /\ detailsPc' = "failed"
    /\ UNCHANGED <<details_df, details_pos, details_items, details_results,
                   details_temp, details_output, geoVars, geoMainVars, scrapeVars,
                   flyerVars,
                   extractVars, createVars>>

\* One turn of the for loop (lines 261-268): extract_store_details on the
\* row iterrows gives, its dict appended when there is one, and the progress
\* save when the row's label asks for it; when that to_csv raises, the
\* except logs and the finally quits the driver.
DetailsProcessStore(page, how) ==
    /\ detailsPc = "loop"
    /\ details_pos <= Len(details_df)
    /\ page \in DetailPages
    /\ details_driver.broken => page = "load_failed"
    /\ LET index == details_df[details_pos]
           store_data == extract_store_details(details_driver, index, page)
           appended == IF store_data.returned = "dict"
                       THEN Append(details_results, store_data)
                       ELSE details_results
       IN  /\ how \in (IF DetailsSaveDue(index) THEN {"saved", "raised"} ELSE {"none"})
           /\ details_items' = Append(details_items, store_data)
           /\ details_results' = appended
           /\ details_temp' = IF how = "saved" THEN File(appended)
                              ELSE IF how = "raised" THEN PartialFile
                              ELSE details_temp
           /\ detailsPc' = IF how = "raised" THEN "failed" ELSE "loop"
           /\ details_driver' =
                LET d == [details_driver EXCEPT !.broken = @ \/ page = "session_died"]
                IN  IF how = "raised" THEN QuitSession(d) ELSE d
    /\ details_pos' = details_pos + 1
    /\ UNCHANGED <<details_df, details_output, geoVars, geoMainVars, scrapeVars,
                   flyerVars,
                   extractVars, createVars>>

\* The loop is over: the final to_csv (line 270), then the finally quits the
\* driver; when to_csv raises the except logs first.
DetailsFinalSave(written) ==
    /\ detailsPc = "loop"
    /\ details_pos > Len(details_df)
    /\ details_output' = IF written THEN File(details_results) ELSE PartialFile
    /\ details_driver' = QuitSession(details_driver)
    /\ detailsPc' = IF written THEN "done" ELSE "failed"
    /\ UNCHANGED <<details_df, details_pos, details_items, details_results,
                   details_temp, geoVars, geoMainVars, scrapeVars, flyerVars,
                   extractVars, createVars>>

\* The operator interrupts the script while the loop runs: KeyboardInterrupt
\* is no Exception, so the except of line 273 does not take it; the finally
\* quits the driver and __main__ logs and calls sys.exit(0) (lines 282-284).
DetailsInterrupt ==
    /\ detailsPc = "loop"
    /\ details_driver' = QuitSession(details_driver)
    /\ detailsPc' = "interrupted"
    /\ UNCHANGED <<details_df, details_pos, details_items, details_results,
                   details_temp, details_output, geoVars, geoMainVars, scrapeVars,
                   flyerVars,
                   extractVars, createVars>>

DetailsNext ==
    \/ DetailsSetupDriver
    \/ DetailsSetupDriverFails
    \/ \E dups \in SUBSET UrlLabels : DetailsLoadInput(dups)
    \/ DetailsLoadInputFails
    \/ \E page \in DetailPages, how \in {"none", "saved", "raised"} :
         DetailsProcessStore(page, how)
    \/ \E written \in BOOLEAN : DetailsFinalSave(written)
    \/ DetailsInterrupt

SpecDetails == DetailsInit /\ [][DetailsNext]_vars

(***************************************************************************)
(* shop_details.py: extract_store_details and handle_maps_link, called     *)
(* for one store after the other on the one driver of main.                *)
(***************************************************************************)
\* How many stores the loop of main hands to extract_store_details.
MaxCalls == 3

\* The tabs a click on a maps link can open.
Tabs == {"tab1", "tab2"}

\* The fields read from the store page itself (lines 216-232).
PageFields == {"Store Name", "Address", "Contact"}

\* Lines 216-232 on a page where the fields in `unreadable` cannot be read:
\* the record so far, or None when the exception leaves the function. The
\* title is read with no try of its own (line 216), so its failure reaches
\* the except of line 246 before address and contact are tried; address and
\* contact keep their default 'N/A' (lines 218-232).
read_fields(unreadable) ==
    IF "Store Name" \in unreadable
    THEN [NoRecord EXCEPT !.returned = "None", !.failed = {"Store Name"}]
    ELSE [NoRecord EXCEPT
            !.fields = [f \in Fields |->
                          IF f = "Coordinates" THEN "unset"
                          ELSE IF f \in unreadable THEN "N/A" ELSE "value"],
            !.failed = unreadable]

\* handle_maps_link returns `coordinates` and extract_store_details returns
\* its dict (lines 235-244).
ReturnRecord(coordinates) ==
    [store_record EXCEPT
        !.returned = "dict",
        !.fields = [@ EXCEPT !["Coordinates"] = coordinates],
        !.failed = IF coordinates = "N/A" THEN @ \cup {"Coordinates"} ELSE @]

\* The except of line 194: with more than one window open the driver is
\* switched to main_window (lines 198-199); no window is closed.
RecoverFocus ==
    IF Cardinality(window_handles) > 1 THEN main_window ELSE focus

ExtractInit ==
    /\ extractPc = "call"
    /\ extract_calls = 0
    /\ window_handles = {"main"}
    /\ focus = "main"
    /\ main_window = "main"
    /\ store_record = NoRecord
    /\ GeoCallIdle
    /\ GeoMainIdle
    /\ ScrapeIdle
    /\ FlyerIdle
    /\ DetailsIdle
    /\ CreateIdle

\* driver.get(url) and the wait for h1.title (lines 207-212), in the window
\* the driver is switched to; when they raise the function returns None
\* (lines 246-248).
ExtractLoad(loaded) ==
    /\ extractPc = "call"
    /\ extract_calls < MaxCalls
    /\ focus = "closed" => ~loaded
    /\ extract_calls' = extract_calls + 1
    /\ store_record' = IF loaded THEN NoRecord
                       ELSE [NoRecord EXCEPT !.returned = "None"]
    /\ extractPc' = IF loaded THEN "fields" ELSE "call"
    /\ UNCHANGED <<window_handles, focus, main_window, geoVars, geoMainVars,
                   scrapeVars, flyerVars, detailsVars, createVars>>

\* The title, the address and the contact are read (lines 216-232), then
\* handle_maps_link takes main_window = driver.current_window_handle
\* (line 113).
ExtractFields(unreadable) ==
    /\ extractPc = "fields"
    /\ unreadable \subseteq PageFields
    /\ "Store Name" \in unreadable => unreadable = {"Store Name"}
    /\ store_record' = read_fields(unreadable)
    /\ extractPc' = IF read_fields(unreadable).returned = "None" THEN "call" ELSE "maps"
    /\ main_window' = IF read_fields(unreadable).returned = "None"
                      THEN main_window ELSE focus
    /\ UNCHANGED <<extract_calls, window_handles, focus, geoVars, geoMainVars,
                   scrapeVars, flyerVars, detailsVars, createVars>>

\* No selector finds a maps link (lines 135-137).
MapsNoLink ==
    /\ extractPc = "maps"
    /\ store_record' = ReturnRecord("N/A")
    /\ extractPc' = "call"
    /\ UNCHANGED <<extract_calls, window_handles, focus, main_window, geoVars,
                   geoMainVars, scrapeVars, flyerVars, detailsVars, createVars>>

\* The link is an <a> with a maps URL: extract_coordinates on its href, which
\* finds a pattern or not (lines 140-144, 77-109).
MapsDirectUrl(coordinates) ==
    /\ extractPc = "maps"
    /\ coordinates \in {"value", "N/A"}
    /\ store_record' = ReturnRecord(coordinates)
    /\ extractPc' = "call"
    /\ UNCHANGED <<extract_calls, window_handles, focus, main_window, geoVars,
                   geoMainVars, scrapeVars, flyerVars, detailsVars, createVars>>

\* The link is clicked (lines 147-150): the click opens the tabs in `opened`,
\* or navigates in the same window, or does nothing.
MapsClick(opened) ==
    /\ extractPc = "maps"
    /\ opened \subseteq Tabs \ window_handles
    /\ Cardinality(opened) <= 1
    /\ window_handles' = window_handles \cup opened
    /\ extractPc' = "clicked"
    /\ UNCHANGED <<extract_calls, focus, main_window, store_record, geoVars,
                   geoMainVars, scrapeVars, flyerVars, detailsVars, createVars>>

\* Scrolling to the link or clicking it raises (lines 148-149): the except of
\* line 194 returns 'N/A', 'N/A'.
MapsClickRaises ==
    /\ extractPc = "maps"
    /\ focus' = RecoverFocus
    /\ store_record' = ReturnRecord("N/A")
    /\ extractPc' = "call"
    /\ UNCHANGED <<extract_calls, window_handles, main_window, geoVars,
                   geoMainVars, scrapeVars, flyerVars, detailsVars, createVars>>

\* What the branch of lines 153-179 can come to.
TabOutcomes ==
    {"switch_raises",      \* switch_to.window(new_window) raises (line 155)
     "coordinates",        \* the maps URL came and a pattern matched
     "no_pattern",         \* the maps URL came and no pattern matched
     "wait_timeout",       \* the wait of line 159 timed out
     "close_raises",       \* driver.close() raises, also in the handler (line 175)
     "switch_back_raises"} \* the tab is closed, switch_to.window(main_window) raises

\* More than one window is open after the click (line 153): new_window is
\* the first handle that is not main_window, in the order the driver lists
\* them (line 154), whether the click opened it or not.
MapsNewTab(new_window, outcome) ==
    /\ extractPc = "clicked"
    /\ Cardinality(window_handles) > 1
    /\ new_window \in window_handles \ {main_window}
    /\ outcome \in TabOutcomes
    /\ window_handles' = IF outcome \in {"switch_raises", "close_raises"}
                         THEN window_handles
                         ELSE window_handles \ {new_window}
    /\ focus' = IF outcome = "switch_raises" THEN RecoverFocus
                ELSE IF outcome = "close_raises" THEN new_window
                ELSE IF outcome = "switch_back_raises" THEN "closed"
                ELSE main_window
    /\ store_record' = ReturnRecord(IF outcome = "coordinates" THEN "value" ELSE "N/A")
    /\ extractPc' = "call"
    /\ UNCHANGED <<extract_calls, main_window, geoVars, geoMainVars, scrapeVars,
                   flyerVars, detailsVars, createVars>>

\* What the branches of lines 180-192 can come to.
SameTabOutcomes ==
    {"coordinates",     \* a maps URL in the same tab, a pattern matched, back
     "no_pattern",      \* a maps URL in the same tab, no pattern matched, back
     "back_timeout",    \* h1.title does not come back (line 187): line 194
     "no_navigation"}   \* the URL is no maps URL (line 191)

\* One window is open after the click (lines 180-192).
MapsSameTab(outcome) ==
    /\ extractPc = "clicked"
    /\ Cardinality(window_handles) = 1
    /\ outcome \in SameTabOutcomes
    /\ store_record' = ReturnRecord(IF outcome = "coordinates" THEN "value" ELSE "N/A")
    /\ extractPc' = "call"
    /\ UNCHANGED <<extract_calls, window_handles, focus, main_window, geoVars,
                   geoMainVars, scrapeVars, flyerVars, detailsVars, createVars>>

ExtractNext ==
    \/ \E loaded \in BOOLEAN : ExtractLoad(loaded)
    \/ \E unreadable \in SUBSET PageFields : ExtractFields(unreadable)
    \/ MapsNoLink
    \/ \E coordinates \in {"value", "N/A"} : MapsDirectUrl(coordinates)
    \/ \E opened \in SUBSET Tabs : MapsClick(opened)
    \/ MapsClickRaises
    \/ \E new_window \in Tabs \cup {"main"}, outcome \in TabOutcomes :
         MapsNewTab(new_window, outcome)
    \/ \E outcome \in SameTabOutcomes : MapsSameTab(outcome)

SpecExtract == ExtractInit /\ [][ExtractNext]_vars

(***************************************************************************)
(* Claims about extract_store_details, checked under SpecExtract.          *)
(***************************************************************************)
\* C26: when a call has returned and the extraction of some of the fields
\* (store name, address, contact, coordinates) had failed in it, the call
\* returned a record, with 'N/A' in each field that failed.
C26_FieldFailureKeepsRecord ==
    (store_record.returned # "none" /\ store_record.failed # {})
    => /\ store_record.returned = "dict"
       /\ \A f \in store_record.failed : store_record.fields[f] = "N/A"

\* C28: whenever handle_maps_link has returned, with coordinates or with
\* 'N/A', the driver is switched to the original main window and that is the
\* only window open: the next store starts from a single-window session.
C28_SingleWindowAfterMapsLink ==
    (extractPc = "call" /\ store_record.returned = "dict")
    => (focus = "main" /\ window_handles = {"main"})

(***************************************************************************)
(* The scripts side by side: a run is a run of one of them, the variables  *)
(* of the others staying idle.                                             *)
(***************************************************************************)
\* One call of scrape_dpiu_stores(city) in a pool process of its own, for
\* any city, with or without a checkpoint of that city left by an earlier
\* run.
ScrapeCallInit ==
    /\ scrapePc = "call"
    /\ chunk_start = 0
    /\ \E c \in Cities :
         /\ worker = [d \in Cities |-> IF d = c THEN FreshWorker ELSE IdleWorker]
         /\ \E stale \in {NoFile, File(<<[City |-> c, Link |-> "store-b"]>>)} :
              temp_dir = [d \in Cities |-> IF d = c THEN stale ELSE NoFile]
    /\ prior_temp = temp_dir
    /\ temp_tmp = [c \in Cities |-> NoFile]
    /\ output_file = NoFile
    /\ output_tmp = NoFile
    /\ prior_output = NoFile
    /\ chunks = <<>>
    /\ GeoCallIdle
    /\ GeoMainIdle
    /\ FlyerIdle
    /\ DetailsIdle
    /\ ExtractIdle
    /\ CreateIdle

ScrapeCallNext ==
    \/ \E c \in Cities : SetupDriver(c)
    \/ \E c \in Cities : SetupDriverFails(c)
    \/ \E c \in Cities : SetupDriverLeaks(c)
    \/ \E c \in Cities, kind \in {"load_timeout", "search_failed"} : AttemptRaises(c, kind)
    \/ \E c \in Cities, kind \in {"no_results", "wait_timeout"} : AttemptNoResults(c, kind)
    \/ \E c \in Cities : \E found \in StoreLists(c) : AttemptFound(c, found)
    \/ \E c \in Cities : WriteTempFile(c)
    \/ \E c \in Cities : WriteTempFileFails(c)
    \/ \E c \in Cities : ReplaceTempFile(c)
    \/ \E c \in Cities : ReplaceTempFileFails(c)

\* A call of scrape_dpiu_stores or a run of flyer_scraping: the two per-item
\* worker functions (scrape_dpiu_stores, process_store).
SpecWorkers == (ScrapeCallInit \/ FlyerInit) /\ [][ScrapeCallNext \/ FlyerNext]_vars

\* shop_scrape or shop_geocode main: the two scripts that dispatch their
\* items in chunks.
SpecChunking == (ScrapeInit \/ GeoMainInit) /\ [][ScrapeNext \/ GeoMainNext]_vars

\* flyer_scraping or shop_details: the two scripts with one driver and an
\* item loop.
SpecItemLoops == (FlyerInit \/ DetailsInit) /\ [][FlyerNext \/ DetailsNext]_vars

(***************************************************************************)
(* Claims about the worker functions, checked under SpecWorkers.           *)
(***************************************************************************)
NotFoundKinds == {"no_results", "wait_timeout"}

\* C11: an attempt of scrape_dpiu_stores that meets the no-results marker or
\* sees no result item within the wait is the call's last attempt: the call
\* has returned False with retry_count not raised by it; a store whose flyer
\* carousel is not found within the wait gets the result 'No flyers' with no
\* pdf link, and process_store is not called for that store again.
C11_NotFoundEndsItemWithoutRetry ==
    /\ \A c \in Cities :
         \A i \in 1..Len(worker[c].attempts) :
            worker[c].attempts[i] \in NotFoundKinds
            => /\ i = Len(worker[c].attempts)
               /\ worker[c].pc = "returned"
               /\ worker[c].ret = "False"
               /\ worker[c].retry_count = i - 1
    /\ \A k \in 1..Len(flyer_results) :
         flyer_results[k].page = "carousel_missing"
         => /\ flyer_results[k].status = "No flyers"
            /\ flyer_results[k].pdf_links = <<>>
            /\ \A j \in 1..Len(flyer_results) :
                 (j # k /\ flyer_results[j].shop_id = flyer_results[k].shop_id)
                 => flyer_results[j].page = "none"

\* Where a call of scrape_dpiu_stores can be, and the failures of an attempt
\* that take the except of line 263.
WorkerPlaces == {"idle", "loop", "session", "save", "replace", "returned", "joined"}

RaisingKinds == {"setup_failed", "load_timeout", "search_failed"}

\* C15: a call of scrape_dpiu_stores is never left by an exception: it is
\* running or has returned True or False, and it has returned False once its
\* attempts are used up by failures of driver creation, page load or element
\* lookup, or once its checkpoint could not be written; process_store
\* returns a dict with a status for every page, 'error' when loading it
\* raised, so that main's except of line 195 is entered only by a periodic
\* save that raised.
C15_NoFailureEscapesWorker ==
    /\ \A c \in Cities :
         /\ worker[c].pc \in WorkerPlaces
         /\ worker[c].pc \in {"returned", "joined"} => worker[c].ret \in {"True", "False"}
         /\ ( /\ worker[c].attempts # <<>>
              /\ worker[c].attempts[Len(worker[c].attempts)] \in RaisingKinds
              /\ worker[c].retry_count >= max_retries )
            => (worker[c].pc = "returned" /\ worker[c].ret = "False")
         /\ worker[c].saved = "failed"
            => (worker[c].pc \in {"returned", "joined"} /\ worker[c].ret = "False")
    /\ \A k \in 1..Len(flyer_results) :
         /\ flyer_results[k].status \in {"No flyers", "success", "error"}
         /\ flyer_results[k].page \in {"session_died", "get_raises"}
            => flyer_results[k].status = "error"
         /\ flyer_results[k].page = "none"
            => /\ FlyerSaveDue(flyer_results[k].shop_id)
               /\ k > 1
               /\ flyer_results[k - 1].shop_id = flyer_results[k].shop_id
               /\ flyer_results[k - 1].page \in StorePages

\* A city whose driver could not be created on the first attempt and whose
\* search field could not be found on the second: returned False.
C15_Witness ==
    \E c \in Cities :
        /\ worker[c].attempts = <<"setup_failed", "search_failed">>
        /\ worker[c].pc = "returned"
        /\ worker[c].ret = "False"

\* A city whose first attempt timed out loading the page and whose second
\* attempt saw no result item: returned False after two attempts, one retry.
C11_Witness ==
    \E c \in Cities :
        /\ worker[c].attempts = <<"load_timeout", "wait_timeout">>
        /\ worker[c].pc = "returned"
        /\ worker[c].ret = "False"
        /\ worker[c].retry_count = 1

\* C22: when save_temp_results returns True for a city, the city's file in
\* TEMP_DIR holds exactly the stores of this call, whatever checkpoint of the
\* city was there before, and no .tmp file of the city is left: one
\* checkpoint, the latest stores, no row of the earlier version.
C22_CheckpointReplacedWholesale ==
    [][\A c \in Cities :
         (worker[c].pc = "replace" /\ worker'[c].saved = "written")
         => /\ temp_dir'[c] = File(worker[c].stores)
            /\ temp_tmp'[c] = NoFile]_vars

\* The city had a checkpoint with store-b from the run before, and the call
\* has saved a list with store-a over it.
C22_Witness ==
    \E c \in Cities :
        /\ prior_temp[c] = File(<<[City |-> c, Link |-> "store-b"]>>)
        /\ worker[c].saved = "written"
        /\ temp_dir[c] = File(<<[City |-> c, Link |-> "store-a"]>>)

(***************************************************************************)
(* Claims about the chunk loops, checked under SpecChunking.               *)
(***************************************************************************)
\* The chunks handed to a pool that hold city c, and the places in the
\* frames handed to process_batch that hold the row labelled r.
ChunksWith(c) == {k \in 1..Len(chunks) : c \in chunks[k]}

BatchPlacesOf(r) ==
    {p \in (1..Len(batches)) \X (1..batch_size) :
        p[2] <= Len(batches[p[1]]) /\ batches[p[1]][p[2]] = r}

\* C14: the chunks shop_scrape main hands out are never empty nor longer
\* than chunk_size, no city is in two of them, and once the loop is over
\* every city has been in exactly one; the same for the frames shop_geocode
\* main hands to process_batch, batch_size and the input rows.
C14_ChunksPartitionItems ==
    /\ \A k \in 1..Len(chunks) :
         chunks[k] # {} /\ Cardinality(chunks[k]) <= chunk_size
    /\ \A c \in Cities :
         /\ Cardinality(ChunksWith(c)) <= 1
         /\ chunk_start >= NumCities => Cardinality(ChunksWith(c)) = 1
    /\ \A k \in 1..Len(batches) :
         batches[k] # <<>> /\ Len(batches[k]) <= batch_size
    /\ \A r \in 0..(NumRows - 1) :
         /\ Cardinality(BatchPlacesOf(r)) <= 1
         /\ batch_start >= NumRows => Cardinality(BatchPlacesOf(r)) = 1

\* The loop of shop_scrape main is over and its last chunk was a short one.
C14_Witness ==
    /\ chunk_start >= NumCities
    /\ Len(chunks) >= 2
    /\ Cardinality(chunks[Len(chunks)]) < chunk_size
    /\ Cardinality(chunks[1]) = chunk_size

(***************************************************************************)
(* Claims about the item loops, checked under SpecItemLoops.               *)
(***************************************************************************)
Longest(a, b) == IF Len(a) >= Len(b) THEN a ELSE b

\* The results a crash now would leave on disk: the rows of the fullest
\* completely written file.
FlyerPersisted == Longest(flyer_output.rows, flyer_fallback.rows)

DetailsPersisted == Longest(details_output.rows, details_temp.rows)

FlyerUnsaved == Len(flyer_results) - Len(FlyerPersisted)

DetailsUnsaved == Len(details_results) - Len(DetailsPersisted)

\* No save has failed so far in the run of flyer_scraping.
FlyerSavesWentWell ==
    /\ flyer_output.state # "partial"
    /\ \A k \in 1..Len(flyer_results) : flyer_results[k].page # "none"

\* C16: while the item loop runs and no save has failed, the results not
\* yet on disk are at most one save period (10 in flyer_scraping, 5 in
\* shop_details) many, whatever rows dropna or drop_duplicates removed.
C16_UnsavedAtMostOnePeriod ==
    /\ (flyerPc = "loop" /\ FlyerSavesWentWell) => FlyerUnsaved <= FlyerSaveEvery
    /\ detailsPc = "loop" => DetailsUnsaved <= DetailsSaveEvery

\* C17: when the operator has interrupted the item loop and the script has
\* ended, the results of all the items completed before the interrupt are
\* on disk, in the output file or in a checkpoint.
C17_InterruptKeepsCompletedResults ==
    /\ flyerPc = "interrupted" => FlyerPersisted = flyer_results
    /\ detailsPc = "interrupted" => DetailsPersisted = details_results

\* C18: the driver created at startup is not quit while the item loop runs,
\* is never quit twice, and has been quit exactly once when the loop has
\* been left: normally, by an exception or by an operator interrupt.
C18_SingleDriverQuitExactlyOnce ==
    /\ flyer_driver.quits <= 1
    /\ details_driver.quits <= 1
    /\ flyerPc = "loop" => (flyer_driver.created /\ flyer_driver.quits = 0)
    /\ detailsPc = "loop" => (details_driver.created /\ details_driver.quits = 0)
    /\ flyerPc \in {"final_save", "done", "interrupted"}
       => (flyer_driver.created /\ flyer_driver.quits = 1)
    /\ (flyerPc = "raised" /\ flyer_driver.created) => flyer_driver.quits = 1
    /\ detailsPc \in {"done", "failed", "interrupted"}
       => (details_driver.created /\ details_driver.quits = 1)

\* shop_details left its loop by the exception of a progress save that
\* raised, after at least two items, and the driver was quit once.
C18_Witness ==
    /\ detailsPc = "failed"
    /\ details_temp.state = "partial"
    /\ Len(details_items) >= 2
    /\ details_driver.quits = 1

\* C19: no item is processed on a session that had already ended when the
\* item's processing began.
C19_EndedSessionNeverReused ==
    /\ \A k \in 1..Len(flyer_results) : ~flyer_results[k].on_broken
    /\ \A k \in 1..Len(details_items) : ~details_items[k].on_broken

(***************************************************************************)
(* shop_create.py                                                          *)
(***************************************************************************)
\* How many records the geocoded CSV has.
NumRecords == 3

RecordLabels == 0..(NumRecords - 1)

\* The rows the geocoded CSV can hold: all required fields there and
\* usable; a required field missing; all of them there but one that the
\* payload cannot be built from (a Postal Code int() rejects, a Longitude
\* float() rejects).
RowKinds == {"complete", "missing_field", "bad_value"}

\* validate_data(row) (lines 30-42).
validate_data(row) == row # "missing_field"

\* create_shop_payload(row) raises (lines 44-77).
PayloadRaises(row) == row = "bad_value"

\* What the request of line 115 can come to. The _id of a shop the API
\* created is a value, never null.
PostOutcomes ==
    {"request_raises",   \* requests.post raises a RequestException (line 130)
     "status_not_200",   \* the API answers with another status (line 123)
     "bad_body",         \* status 200, the body is no JSON or has no
                         \* data.value._id (lines 118-119, 133)
     "created"}          \* status 200 and an _id (lines 117-122)

\* A variant of the loop body that counts nothing for a status other
\* than 200.
process_record_uncounted_status(row, response) ==
    IF validate_data(row) /\ ~PayloadRaises(row) /\ response = "created"
    THEN [success |-> 1, failure |-> 0, shop_id |-> "id"]
    ELSE IF validate_data(row) /\ ~PayloadRaises(row) /\ response = "status_not_200"
    THEN [success |-> 0, failure |-> 0, shop_id |-> "None"]
    ELSE [success |-> 0, failure |-> 1, shop_id |-> "None"]

\* The body of the for loop (lines 101-135) for a row whose request, when
\* one is sent, comes to `response`: what is added to success_count and to
\* failure_count, and what the row's Shop ID is afterwards (None since
\* line 89 unless line 120 ran).
process_record(row, response) ==
    IF ~validate_data(row)
    THEN [success |-> 0, failure |-> 1, shop_id |-> "None"]     \* lines 104-107
    ELSE IF PayloadRaises(row)
    THEN [success |-> 0, failure |-> 1, shop_id |-> "None"]     \* lines 109, 133
    ELSE IF response = "request_raises"
    THEN [success |-> 0, failure |-> 1, shop_id |-> "None"]     \* line 131
    ELSE IF response = "status_not_200"
    THEN [success |-> 0, failure |-> 1, shop_id |-> "None"]     \* line 124
    ELSE IF response = "bad_body"
    THEN [success |-> 0, failure |-> 1, shop_id |-> "None"]     \* line 134
    ELSE [success |-> 1, failure |-> 0, shop_id |-> "id"]       \* lines 120-121

CreateInit ==
    /\ createPc = "start"
    /\ create_df = <<>>
    /\ create_pos = 1
    /\ success_count = 0
    /\ failure_count = 0
    /\ create_output = NoFile
    /\ GeoCallIdle
    /\ GeoMainIdle
    /\ ScrapeIdle
    /\ FlyerIdle
    /\ DetailsIdle
    /\ ExtractIdle

\* read_csv, df["Shop ID"] = None and the two counters (lines 85-98).
CreateLoadInput(rows) ==
    /\ createPc = "start"
    /\ rows \in [RecordLabels -> RowKinds]
    /\ create_df' = [label \in RecordLabels |->
                       [row |-> rows[label], shop_id |-> "None"]]
    /\ createPc' = "loop"
    /\ UNCHANGED <<create_pos, success_count, failure_count, create_output,
                   geoVars, geoMainVars, scrapeVars, flyerVars, detailsVars,
                   extractVars>>

\* read_csv raises: logged, sys.exit(1) (lines 143-145).
CreateLoadInputFails ==
    /\ createPc = "start"
    /\ createPc' = "exited"
    /\ UNCHANGED <<create_df, create_pos, success_count, failure_count,
                   create_output, geoVars, geoMainVars, scrapeVars, flyerVars,
                   detailsVars, extractVars>>

\* One turn of the for loop (lines 100-135).
CreateProcessRecord(response) ==
    /\ createPc = "loop"
    /\ create_pos <= NumRecords
    /\ response \in PostOutcomes
    /\ LET index == create_pos - 1
           done == process_record(create_df[index].row, response)
       IN  /\ create_df' = [create_df EXCEPT ![index].shop_id = done.shop_id]
           /\ success_count' = success_count + done.success
           /\ failure_count' = failure_count + done.failure
    /\ create_pos' = create_pos + 1
    /\ UNCHANGED <<createPc, create_output, geoVars, geoMainVars, scrapeVars,
                   flyerVars, detailsVars, extractVars>>

\* df.to_csv(output_file) after the loop (lines 138-141); when it raises,
\* sys.exit(1) (lines 143-145).
CreateSaveResults(written) ==
    /\ createPc = "loop"
    /\ create_pos > NumRecords
    /\ create_output' = IF written
                        THEN File([k \in 1..NumRecords |-> create_df[k - 1].shop_id])
                        ELSE PartialFile
    /\ createPc' = IF written THEN "done" ELSE "exited"
    /\ UNCHANGED <<create_df, create_pos, success_count, failure_count, geoVars,
                   geoMainVars, scrapeVars, flyerVars, detailsVars, extractVars>>

CreateNext ==
    \/ \E rows \in [RecordLabels -> RowKinds] : CreateLoadInput(rows)
    \/ CreateLoadInputFails
    \/ \E response \in PostOutcomes : CreateProcessRecord(response)
    \/ \E written \in BOOLEAN : CreateSaveResults(written)

SpecCreate == CreateInit /\ [][CreateNext]_vars

(***************************************************************************)
(* Claims about shop_create, checked under SpecCreate.                     *)
(***************************************************************************)
\* The records processed so far, and those of them with a Shop ID.
Processed == 0..(create_pos - 2)

WithShopId == {label \in DOMAIN create_df : create_df[label].shop_id # "None"}

\* The row label gets its Shop ID in this step.
ShopIdSetNow(label) ==
    create_df[label].shop_id = "None" /\ create_df'[label].shop_id # "None"

\* C31: after any prefix of the records success_count + failure_count is the
\* number of records processed and the rows with a Shop ID are processed
\* rows, as many as success_count; every turn of the loop raises exactly one
\* of the two counters by one, success_count exactly when the record's Shop
\* ID is set in that turn, and touches the Shop ID of no other row.
C31_CountersMatchRecords ==
    [][/\ success_count' + failure_count' = create_pos' - 1
       /\ Cardinality(WithShopId') = success_count'
       /\ WithShopId' \subseteq 0..(create_pos' - 2)
       /\ create_pos' = create_pos + 1 =>
            /\ \/ success_count' = success_count + 1 /\ failure_count' = failure_count
               \/ success_count' = success_count /\ failure_count' = failure_count + 1
            /\ success_count' = success_count + 1 <=> ShopIdSetNow(create_pos - 1)
            /\ \A label \in RecordLabels \ {create_pos - 1} :
                 create_df'[label] = create_df[label]]_vars

\* All records were processed and the results saved: the first was created,
\* the second lacked a field, the request of the third failed.
C31_Witness ==
    /\ createPc = "done"
    /\ success_count = 1
    /\ failure_count = 2
    /\ create_df[1].row = "missing_field"
    /\ create_df[2].row = "complete"
    /\ create_output.rows = <<"id", "None", "None">>

====
